---- MODULE Spec2Model ----
(***************************************************************************)
(* A model of the elevator system: the car (elevator.py), the request     *)
(* (models.py), the dispatch strategies (strategies.py) and the fleet      *)
(* controller with its ticker thread (controller.py).                      *)
(***************************************************************************)
EXTENDS Integers, Sequences, FiniteSets, TLC

(***************************************************************************)
(* Bounds of the model.                                                    *)
(***************************************************************************)
\* Floors of a car are 0..MaxFloor; requests name floors -1..MaxFloor+1.
MaxFloor == 2
\* Requests a single car is offered (specification CarSpec).
MaxRequests == 3
\* Passenger counts of a request are 1..MaxPassengers.
MaxPassengers == 2
\* Cars of the controller's fleet (specification Spec).
NumCars == 2
\* Requests submitted through the controller.
MaxSubmitted == 2
\* Threads that call start() and stop().
NumCallers == 2
\* Requests submitted while the lock is contended (specification LockSpec).
MaxContended == 1
\* Threads that call add_request on one car at once (specification
\* AddersSpec).
NumAdders == 2
\* Requests the driving thread offers the car while another thread reads it
\* (specification ReaderSpec).
MaxDriven == 2
\* Ticker threads that start() may create in one run.
MaxTickers == 2
\* Requests a car has accepted and steps it has taken before a strategy is
\* asked about it (StrategySpec).
MaxSetupRequests == 2
MaxSetupSteps == 2
\* Observers registered with a car (specification ObserverSpec).
MaxObservers == 2

\* Elevator.__init__ defaults (elevator.py:43, 45, 46) and the default
\* passenger count of request_elevator (controller.py:95).
DefaultMinFloor == 0
DefaultCapacity == 8
DefaultStartFloor == 0
DefaultPassengers == 1

Null == "none"

UP == "UP"
DOWN == "DOWN"
IDLE == "IDLE"

OPEN == "OPEN"
CLOSED == "CLOSED"

CarFloors == 0..MaxFloor
RequestFloors == (0 - 1)..(MaxFloor + 1)
Capacities == 1..MaxPassengers

Max(a, b) == IF a >= b THEN a ELSE b

\* F(v), with v evaluated once.
Bind(v, F(_)) == CHOOSE y \in { F(x) : x \in {v} } : TRUE

(***************************************************************************)
(* models.py: Request.  A request is a record; its id is its identity.    *)
(***************************************************************************)
\* Request.__post_init__: the arguments for which construction succeeds.
request_valid(pickup, destination, passengers) ==
    /\ pickup /= destination
    /\ passengers >= 1

\* Request.direction
request_direction(r) ==
    IF r.destination_floor > r.pickup_floor THEN UP ELSE DOWN

Request(id, pickup, destination, passengers) ==
    [id |-> id, pickup_floor |-> pickup, destination_floor |-> destination,
     passengers |-> passengers]

\* Stands for "no request" where a request is recorded.
NoRequest == Request(0, 0, 0, 0)

\* Every request that can be constructed with identity id within the bounds.
RequestSpace(id) ==
    { Request(id, p, d, n) : <<p, d, n>> \in
        { x \in RequestFloors \X RequestFloors \X (1..MaxPassengers) :
            request_valid(x[1], x[2], x[3]) } }

(***************************************************************************)
(* elevator.py: Elevator.  A car is a record of its configuration, its    *)
(* state, the notifications of its last operation (events) and history     *)
(* fields h_... that record what the car did to each request: h_twice the *)
(* requests whose passengers were added to the load more than once,        *)
(* h_again the requests handled again after they were completed.  observers *)
(* lists, for each registered observer, whether its callbacks return or   *)
(* raise; delivered lists the notifications each observer was called with *)
(* in the last operation; raised tells that an exception left it; lock is *)
(* the thread that holds the car's lock, or 0.                             *)
(***************************************************************************)
\* Elevator.__init__
Elevator(id, min_floor, max_floor, capacity, start_floor) ==
    [id |-> id, min_floor |-> min_floor, max_floor |-> max_floor,
     capacity |-> capacity,
     current_floor |-> start_floor, direction |-> IDLE, door_state |-> CLOSED,
     current_load |-> 0,
     up_stops |-> {}, down_stops |-> {},
     active_requests |-> [f \in min_floor..max_floor |-> {}],
     events |-> <<>>,
     h_seen |-> {}, h_boarded |-> {}, h_completed |-> {}, h_early |-> {},
     h_twice |-> {}, h_again |-> {},
     h_sweep |-> Null, h_turns |-> 0, h_was_idle |-> FALSE,
     observers |-> <<>>, delivered |-> <<>>, raised |-> FALSE,
     lock |-> 0]

\* Elevator.get_state: the snapshot handed to observers and strategies.
get_state(c) ==
    [elevator_id |-> c.id, current_floor |-> c.current_floor,
     direction |-> c.direction, door_state |-> c.door_state,
     current_load |-> c.current_load, capacity |-> c.capacity,
     pending_stops_up |-> c.up_stops, pending_stops_down |-> c.down_stops]

\* Elevator.add_observer, lines 102-104, for an observer that is not yet
\* registered; o is "returns" or "raises".
add_observer(c, o) ==
    [c EXCEPT !.observers = Append(@, o), !.delivered = Append(@, <<>>)]

\* A callback called with no try around it.
observer_call_unguarded(o) ==
    IF o = "raises" THEN "propagated" ELSE "returned"

\* Elevator._notify_*, lines 333-336: one callback called inside
\* `try: ... except Exception: pass`, as the loop sees it.
observer_call(o) ==
    IF o = "raises" THEN "caught" ELSE "returned"

\* Elevator._notify_*, lines 332-336: the loop over the observers, from the
\* i-th one on.  An exception that leaves a callback ends the loop and the
\* operation.
RECURSIVE notify_observers(_, _, _)
notify_observers(c, type, i) ==
    IF i > Len(c.observers) THEN c
    ELSE IF observer_call(c.observers[i]) = "propagated"
      THEN [c EXCEPT !.delivered[i] = Append(@, type), !.raised = TRUE]
    ELSE notify_observers([c EXCEPT !.delivered[i] = Append(@, type)],
                          type, i + 1)

\* Elevator._notify_*: one notification, carrying the snapshot taken when it
\* is made.  req is the request's id, or 0.
notify(c, type, floor, req) ==
    Bind(c, LAMBDA x :
        IF x.raised THEN x
        ELSE notify_observers(
               [x EXCEPT !.events =
                  Append(@, [type |-> type, floor |-> floor, req |-> req,
                             state |-> get_state(x)])],
               type, 1))

\* The car as an operation finds it: nothing notified yet.
enter(c) ==
    [c EXCEPT !.events = <<>>,
              !.delivered = [i \in DOMAIN @ |-> <<>>],
              !.raised = FALSE]

\* can_accept_request checking the remaining room instead of the capacity.
can_accept_request_by_load(c, r) ==
    /\ c.min_floor <= r.pickup_floor /\ r.pickup_floor <= c.max_floor
    /\ c.min_floor <= r.destination_floor /\ r.destination_floor <= c.max_floor
    /\ c.current_load + r.passengers <= c.capacity

\* Elevator.can_accept_request
can_accept_request(c, r) ==
    /\ c.min_floor <= r.pickup_floor /\ r.pickup_floor <= c.max_floor
    /\ c.min_floor <= r.destination_floor /\ r.destination_floor <= c.max_floor
    /\ r.passengers <= c.capacity

\* History only: which kind of sweep the requests accepted since the car was
\* last IDLE allow.  "UP": only UP requests picked up at or above the car.
sweep_after_add(c, r) ==
    LET kind == IF request_direction(r) = UP /\ r.pickup_floor >= c.current_floor
                  THEN UP
                ELSE IF request_direction(r) = DOWN
                        /\ r.pickup_floor <= c.current_floor
                  THEN DOWN
                ELSE "MIXED"
    IN IF c.h_sweep = Null THEN kind
       ELSE IF c.h_sweep = kind THEN kind
       ELSE "MIXED"

\* initial_direction leaving a car IDLE when the pickup is at its floor.
initial_direction_no_tie(c, r) ==
    IF r.pickup_floor > c.current_floor THEN UP
    ELSE IF r.pickup_floor < c.current_floor THEN DOWN
    ELSE IDLE

\* Elevator.add_request, lines 190-197: the direction an IDLE car takes when
\* it accepts r.
initial_direction(c, r) ==
    IF r.pickup_floor > c.current_floor THEN UP
    ELSE IF r.pickup_floor < c.current_floor THEN DOWN
    ELSE request_direction(r)

\* add_request adding the stops of every request to up_stops.
add_request_stops_up(c, r) ==
    LET c0 == enter(c)
    IN IF ~can_accept_request(c0, r) THEN [car |-> c0, ok |-> FALSE]
       ELSE
        LET pickup == r.pickup_floor
            destination == r.destination_floor
            c1 == [c0 EXCEPT
                     !.active_requests[pickup] = @ \cup {r},
                     !.active_requests[destination] = @ \cup {r}]
            c2 == [c1 EXCEPT !.up_stops = @ \cup {pickup, destination}]
            c3 == IF c2.direction = IDLE
                    THEN [c2 EXCEPT !.direction = initial_direction(c2, r)]
                    ELSE c2
            \* history only: h_was_idle, the car was IDLE when it accepted
            \* its latest request
            c4 == [c3 EXCEPT !.h_sweep = sweep_after_add(c, r),
                             !.h_was_idle = (c.direction = IDLE)]
        IN [car |-> notify(c4, "request_accepted", c4.current_floor, r.id),
            ok |-> TRUE]

\* Elevator.add_request: the car after the call, and the value returned.
add_request(c, r) ==
    LET c0 == enter(c)
    IN IF ~can_accept_request(c0, r) THEN [car |-> c0, ok |-> FALSE]
       ELSE
        LET pickup == r.pickup_floor
            destination == r.destination_floor
            c1 == [c0 EXCEPT
                     !.active_requests[pickup] = @ \cup {r},
                     !.active_requests[destination] = @ \cup {r}]
            c2 == IF request_direction(r) = UP
                    THEN [c1 EXCEPT !.up_stops = @ \cup {pickup, destination}]
                    ELSE [c1 EXCEPT !.down_stops = @ \cup {pickup, destination}]
            c3 == IF c2.direction = IDLE
                    THEN [c2 EXCEPT !.direction = initial_direction(c2, r)]
                    ELSE c2
            \* history only: h_was_idle, the car was IDLE when it accepted
            \* its latest request
            c4 == [c3 EXCEPT !.h_sweep = sweep_after_add(c, r),
                             !.h_was_idle = (c.direction = IDLE)]
        IN [car |-> notify(c4, "request_accepted", c4.current_floor, r.id),
            ok |-> TRUE]

\* Elevator._is_current_floor_a_stop
is_current_floor_a_stop(c) ==
    IF c.direction = UP THEN c.current_floor \in c.up_stops
    ELSE IF c.direction = DOWN THEN c.current_floor \in c.down_stops
    ELSE c.current_floor \in c.up_stops \/ c.current_floor \in c.down_stops

\* Elevator._has_pending_stops
has_pending_stops(c) == c.up_stops /= {} \/ c.down_stops /= {}

\* The orders in which a Python set of requests may be iterated.
Orders(S) ==
    { o \in [1..Cardinality(S) -> S] : \A x \in S : \E i \in DOMAIN o : o[i] = x }

\* can_board without the capacity check.
can_board_always(c, r) == TRUE

\* Elevator._process_current_floor, line 267: the passengers of r fit.
can_board(c, r) == c.current_load + r.passengers <= c.capacity

\* Elevator._process_current_floor, lines 259-268: the loop body for one
\* request.  acc.completed is the list `completed` of the code.
handle_request(acc, r) ==
    LET c == acc.car
        floor == c.current_floor
    IN IF r.destination_floor = floor
         THEN LET c1 == [c EXCEPT
                           !.current_load = Max(0, @ - r.passengers),
                           !.h_completed = @ \cup {r.id},
                           !.h_again = IF r.id \in c.h_completed
                                         THEN @ \cup {r.id} ELSE @,
                           !.h_early = IF r.id \in c.h_seen THEN @
                                       ELSE @ \cup {r.id}]
              IN [car |-> notify(c1, "request_completed", floor, r.id),
                  completed |-> acc.completed \cup {r}]
       ELSE IF r.pickup_floor = floor
         THEN IF can_board(c, r)
                THEN [acc EXCEPT !.car.current_load = @ + r.passengers,
                                 !.car.h_seen = @ \cup {r.id},
                                 !.car.h_boarded = @ \cup {r.id},
                                 !.car.h_twice = IF r.id \in c.h_boarded
                                                   THEN @ \cup {r.id} ELSE @,
                                 !.car.h_again = IF r.id \in c.h_completed
                                                   THEN @ \cup {r.id} ELSE @]
                ELSE [acc EXCEPT !.car.h_seen = @ \cup {r.id}]
       ELSE acc

RECURSIVE handle_requests(_, _, _)
handle_requests(acc, o, i) ==
    IF i > Len(o) THEN acc
    ELSE Bind(handle_request(acc, o[i]),
              LAMBDA a : handle_requests(a, o, i + 1))

\* clean_up discarding the completed requests at the current floor only.
clean_up_floor_only(c, completed) ==
    [c EXCEPT !.active_requests[c.current_floor] = @ \ completed]

\* Elevator._process_current_floor, lines 270-278: the completed requests are
\* discarded from the set of the current floor and from the sets of their
\* pickup floors.
clean_up(c, completed) ==
    [c EXCEPT
       !.active_requests =
         [f \in DOMAIN @ |->
            IF f = c.current_floor \/ \E r \in completed : r.pickup_floor = f
              THEN @[f] \ completed
              ELSE @[f]]]

\* Elevator._process_current_floor, lines 246-254: the door opens and the
\* floor leaves the stop set of the car's direction.
open_door(c) ==
    LET floor == c.current_floor
        c1 == notify([c EXCEPT !.door_state = OPEN], "door_opened", floor, 0)
    IN IF c1.direction = UP /\ floor \in c1.up_stops
         THEN [c1 EXCEPT !.up_stops = @ \ {floor}]
       ELSE IF c1.direction = DOWN /\ floor \in c1.down_stops
         THEN [c1 EXCEPT !.down_stops = @ \ {floor}]
       ELSE c1

\* Elevator._process_current_floor, lines 257-278: the requests of the floor
\* handled in the order o, then the completed ones discarded.
handle_floor(c, o) ==
    Bind(handle_requests([car |-> c, completed |-> {}], o, 1),
         LAMBDA acc : clean_up(acc.car, acc.completed))

\* Elevator._process_current_floor, lines 281-282: the door closes.
close_door(c) ==
    notify([c EXCEPT !.door_state = CLOSED], "door_closed", c.current_floor, 0)

\* Elevator._process_current_floor, the requests of the floor iterated in
\* the order o.
process_current_floor(c, o) ==
    Bind(open_door(c), LAMBDA c2 :
      Bind(handle_floor(c2, o), LAMBDA c3 : close_door(c3)))

\* Elevator.step, lines 218-219 and 227-228: the cars that arrival
\* processing may leave, one for each iteration order.
arrive(c) ==
    IF is_current_floor_a_stop(c)
      THEN { process_current_floor(c, o) :
                o \in Orders(c.active_requests[c.current_floor]) }
      ELSE {c}

\* Elevator._move clamped one floor early.
move_clamped_early(c) ==
    IF c.direction = UP
      THEN IF c.current_floor < c.max_floor - 1
             THEN [c EXCEPT !.current_floor = @ + 1] ELSE c
    ELSE IF c.direction = DOWN
      THEN IF c.current_floor > c.min_floor + 1
             THEN [c EXCEPT !.current_floor = @ - 1] ELSE c
    ELSE c

\* Elevator._move
move(c) ==
    IF c.direction = UP
      THEN IF c.current_floor < c.max_floor
             THEN [c EXCEPT !.current_floor = @ + 1] ELSE c
    ELSE IF c.direction = DOWN
      THEN IF c.current_floor > c.min_floor
             THEN [c EXCEPT !.current_floor = @ - 1] ELSE c
    ELSE c

\* higher_stops with the comparison of lower_stops.
higher_stops_below(c) == { f \in c.up_stops : f < c.current_floor }

\* Elevator._update_direction, line 301: higher_stops
higher_stops(c) == { f \in c.up_stops : f > c.current_floor }

\* lower_stops with the comparison of higher_stops.
lower_stops_above(c) == { f \in c.down_stops : f > c.current_floor }

\* Elevator._update_direction, line 316: lower_stops
lower_stops(c) == { f \in c.down_stops : f < c.current_floor }

\* update_direction keeping the direction when no stop is left.
update_direction_never_idle(c) ==
    IF c.direction = UP
      THEN IF higher_stops(c) /= {} THEN c
           ELSE IF has_pending_stops(c) THEN [c EXCEPT !.direction = DOWN]
           ELSE c
    ELSE IF c.direction = DOWN
      THEN IF lower_stops(c) /= {} THEN c
           ELSE IF has_pending_stops(c) THEN [c EXCEPT !.direction = UP]
           ELSE c
    ELSE c

\* Elevator._update_direction
update_direction(c) ==
    IF c.direction = UP
      THEN IF higher_stops(c) /= {} THEN c
           ELSE IF c.down_stops /= {} THEN [c EXCEPT !.direction = DOWN]
           ELSE IF c.up_stops /= {} THEN [c EXCEPT !.direction = DOWN]
           ELSE [c EXCEPT !.direction = IDLE]
    ELSE IF c.direction = DOWN
      THEN IF lower_stops(c) /= {} THEN c
           ELSE IF c.up_stops /= {} THEN [c EXCEPT !.direction = UP]
           ELSE IF c.down_stops /= {} THEN [c EXCEPT !.direction = UP]
           ELSE [c EXCEPT !.direction = IDLE]
    ELSE c

\* Elevator.step, lines 222-228: move and process the new floor.
move_and_arrive(c) ==
    IF has_pending_stops(c)
      THEN LET m == move(c)
           IN arrive(notify(m, "floor_reached", m.current_floor, 0))
      ELSE {c}

\* History only: a car that is IDLE again starts a new sweep.
end_sweep(c) ==
    IF c.direction = IDLE THEN [c EXCEPT !.h_sweep = Null] ELSE c

\* History only: h_turns counts the reversals (UP to DOWN, DOWN to UP) the
\* car has made in succession without removing a floor from a stop set in
\* between, up to two.
count_turns(before, after) ==
    LET served == \/ after.up_stops /= before.up_stops
                  \/ after.down_stops /= before.down_stops
        base == IF served THEN 0 ELSE before.h_turns
    IN [after EXCEPT !.h_turns =
          IF after.direction = IDLE THEN 0
          ELSE IF after.direction = before.direction THEN base
          ELSE IF base = 0 THEN 1
          ELSE 2]

\* step emitting an event for a car that is IDLE.
step_when_idle_reports(c) ==
    {notify(c, "floor_reached", c.current_floor, 0)}

\* Elevator.step, lines 214-215: `if self._direction == Direction.IDLE:
\* return`.
step_when_idle(c) == {c}

\* Elevator.step: the cars one call may leave.
step(c) ==
    LET c0 == enter(c)
    IN IF c0.direction = IDLE THEN step_when_idle(c0)
       ELSE { count_turns(c0, end_sweep(update_direction(c2))) :
                c2 \in UNION { move_and_arrive(c1) : c1 \in arrive(c0) } }

(***************************************************************************)
(* models.py: ElevatorState, the snapshot a strategy reads.               *)
(***************************************************************************)
Abs(n) == IF n < 0 THEN 0 - n ELSE n

\* ElevatorState.is_idle
is_idle(st) ==
    /\ st.direction = IDLE
    /\ st.pending_stops_up = {}
    /\ st.pending_stops_down = {}

\* ElevatorState.total_pending_stops
total_pending_stops(st) ==
    Cardinality(st.pending_stops_up) + Cardinality(st.pending_stops_down)

\* ElevatorState.distance_to
distance_to(st, floor) == Abs(st.current_floor - floor)

(***************************************************************************)
(* strategies.py.  A fleet is a function 1..n -> car; a strategy returns  *)
(* the index of the selected car, or 0 for None.                           *)
(***************************************************************************)
\* _get_compatible_elevators without its filter.
get_all_elevators(r, fleet) == DOMAIN fleet

\* DispatchStrategy._get_compatible_elevators, as the indices in fleet order.
get_compatible_elevators(r, fleet) ==
    { i \in DOMAIN fleet : can_accept_request(fleet[i], r) }

\* The car of S that min(S, key=...) returns: the first in fleet order of
\* those whose key is least.
first_min(S, key(_)) ==
    CHOOSE i \in S : \A j \in S : key(i) < key(j) \/ (key(i) = key(j) /\ i <= j)

\* IEEE-754 double arithmetic of _calculate_score for a car that is not
\* loaded to 0.8 of its capacity: score = float(m * distance) + n * 0.3.
\* The entry at row 2 * m * distance + 1, column n + 1 is the computed double
\* minus the double nearest the exact score, in units in the last place
\* (0.3 is not a double, so n * 0.3 and the sum are rounded).
score_rounding_unloaded ==
    <<
    << 0,  0,  0, -1,  0,  0, -1,  0,  0>>,
    << 0,  0,  0,  0,  0,  0,  0,  0,  0>>,
    << 0,  0,  0,  0,  0,  0,  0,  0,  0>>,
    << 0,  0,  0,  0,  0,  0,  0,  0,  0>>,
    << 0,  0,  0,  0,  0,  0,  0,  0,  0>>,
    << 0,  0,  0,  0,  0,  0,  0,  0,  0>>,
    << 0,  0,  0,  0,  0,  0,  0,  0,  0>>,
    << 0,  0,  0,  0,  0,  0,  0,  0,  0>>,
    << 0,  0,  0,  0,  0,  0,  0,  0,  0>>,
    << 0,  0,  0,  0,  0,  0,  0,  0,  0>>,
    << 0,  0,  0,  0,  0,  0,  0,  0,  0>>,
    << 0,  0,  0,  0,  0,  0,  0,  0,  0>>,
    << 0,  0,  0,  0,  0,  0,  0,  0,  0>>
    >>

\* The same for a loaded car: score = (float(m * distance) + n * 0.3) * 1.5.
score_rounding_loaded ==
    <<
    << 0, -1, -1, -1, -1,  0, -1,  1, -1>>,
    << 0,  1,  1, -1,  0,  0, -1,  1,  0>>,
    << 0,  1,  1, -1,  1,  0, -1,  0,  0>>,
    << 0,  0,  1, -1,  1,  0, -1,  0,  0>>,
    << 0, -1,  1,  0,  1,  0, -1, -1,  1>>,
    << 0, -1,  0,  0,  1,  0, -1, -1,  1>>,
    << 0, -1,  0,  0,  1,  0, -1, -1,  1>>,
    << 0, -1, -1,  1,  1,  0, -1, -1,  1>>,
    << 0, -1, -1,  1,  1,  0,  0, -1,  1>>,
    << 0, -1, -1,  1,  0,  0,  0, -1,  1>>,
    << 0, -1, -1,  1,  0,  0,  0, -1,  1>>,
    << 0,  0, -1,  1,  0,  0,  0, -1,  1>>,
    << 0,  0, -1,  1,  0,  0,  0, -1,  1>>
    >>

\* _calculate_score with every score taken as exact: no rounding.
score_rounding_none(half_units, stops, loaded) == 0

\* The rounding of _calculate_score, lines 158-162, for m * distance =
\* half_units / 2 and the given number of pending stops.
score_rounding(half_units, stops, loaded) ==
    IF loaded THEN score_rounding_loaded[half_units + 1][stops + 1]
    ELSE score_rounding_unloaded[half_units + 1][stops + 1]

\* LookDispatchStrategy._calculate_score.  value is the exact score times 20
\* (the factors 0.5, 1.5, 2.0, 0.3 and the final 1.5 become 10, 30, 40, 6
\* and 3/2 of an even number); ulps is the rounding of the double the code
\* computes.  Two scores compare as the doubles do: by value, then by ulps.
calculate_score(st, pickup_floor, request_dir) ==
    LET distance == distance_to(st, pickup_floor)
        current == st.current_floor
        \* twice the factor of lines 131-154
        factor2 ==
            IF st.direction = UP
              THEN IF pickup_floor >= current
                     THEN IF request_dir = UP THEN 1 ELSE 3
                     ELSE 4
            ELSE IF st.direction = DOWN
              THEN IF pickup_floor <= current
                     THEN IF request_dir = DOWN THEN 1 ELSE 3
                     ELSE 4
            ELSE 2
        stops == total_pending_stops(st)
        busy == 10 * factor2 * distance + 6 * stops
        loaded == 10 * st.current_load >= 8 * st.capacity
    IN IF is_idle(st)
         THEN [value |-> 20 * distance + 10 * stops, ulps |-> 0]
         ELSE [value |-> IF loaded THEN (busy * 3) \div 2 ELSE busy,
               ulps |-> score_rounding(factor2 * distance, stops, loaded)]

\* score < best_score, line 95.
score_less(a, b) == a.value < b.value \/ (a.value = b.value /\ a.ulps < b.ulps)

\* LookDispatchStrategy.select_elevator: the first car in fleet order that
\* no other car beats.
look_select_elevator(r, fleet) ==
    LET compatible == get_compatible_elevators(r, fleet)
        score(i) == calculate_score(get_state(fleet[i]), r.pickup_floor,
                                    request_direction(r))
    IN IF compatible = {} THEN 0
       ELSE CHOOSE i \in compatible :
              \A j \in compatible :
                 score_less(score(i), score(j))
                   \/ (~score_less(score(j), score(i)) /\ i <= j)

\* Nearest without its preference for idle cars.
nearest_of_all(r, fleet) ==
    LET compatible == get_compatible_elevators(r, fleet)
        distance(i) == distance_to(get_state(fleet[i]), r.pickup_floor)
    IN IF compatible = {} THEN 0 ELSE first_min(compatible, distance)

\* NearestElevatorStrategy.select_elevator
nearest_select_elevator(r, fleet) ==
    LET compatible == get_compatible_elevators(r, fleet)
        idle_elevators == { i \in compatible : is_idle(get_state(fleet[i])) }
        distance(i) == distance_to(get_state(fleet[i]), r.pickup_floor)
    IN IF compatible = {} THEN 0
       ELSE IF idle_elevators /= {} THEN first_min(idle_elevators, distance)
       ELSE first_min(compatible, distance)

\* FCFSDispatchStrategy.select_elevator, lines 234-243: the loop, k
\* iterations done.  Python's list index idx is car idx + 1 of the fleet.
RECURSIVE fcfs_scan(_, _, _, _)
fcfs_scan(next_index, compatible, n, k) ==
    IF k = n
      THEN [elevator |-> first_min(compatible, LAMBDA i : 0),
            next_index |-> next_index, advances |-> k]
    ELSE LET idx == next_index % n
             advanced == (next_index + 1) % n
         IN IF idx + 1 \in compatible
              THEN [elevator |-> idx + 1, next_index |-> advanced,
                    advances |-> k + 1]
              ELSE fcfs_scan(advanced, compatible, n, k + 1)

\* FCFS that starts every scan at the head of the fleet.
fcfs_from_head(next_index, r, fleet) ==
    LET compatible == get_compatible_elevators(r, fleet)
    IN IF compatible = {}
         THEN [elevator |-> 0, next_index |-> next_index, advances |-> 0]
         ELSE fcfs_scan(0, compatible, Len(fleet), 0)

\* FCFSDispatchStrategy.select_elevator: the car returned, _next_index after
\* the call, and how many times the call advanced it.
fcfs_select_elevator(next_index, r, fleet) ==
    LET compatible == get_compatible_elevators(r, fleet)
    IN IF compatible = {}
         THEN [elevator |-> 0, next_index |-> next_index, advances |-> 0]
         ELSE fcfs_scan(next_index, compatible, Len(fleet), 0)

\* Zoned dispatch that looks at no zone.
zoned_without_zones(zone_assignments, r, fleet) ==
    nearest_select_elevator(r, fleet)

\* ZonedDispatchStrategy.select_elevator.  zone_assignments maps a car id to
\* its zone <<min_floor, max_floor>>; a car without a zone is not in its
\* domain.
zoned_select_elevator(zone_assignments, r, fleet) ==
    LET compatible == get_compatible_elevators(r, fleet)
        zone_elevators ==
            { i \in compatible :
                /\ fleet[i].id \in DOMAIN zone_assignments
                /\ zone_assignments[fleet[i].id][1] <= r.pickup_floor
                /\ r.pickup_floor <= zone_assignments[fleet[i].id][2] }
        distance(i) == distance_to(get_state(fleet[i]), r.pickup_floor)
    IN IF compatible = {} THEN 0
       ELSE IF zone_elevators /= {} THEN first_min(zone_elevators, distance)
       ELSE nearest_select_elevator(r, fleet)

\* The strategy objects: LookDispatchStrategy(), NearestElevatorStrategy(),
\* FCFSDispatchStrategy() with its _next_index, ZonedDispatchStrategy(zones).
NoZones == [id \in {} |-> <<0, 0>>]

LookDispatchStrategy == [kind |-> "LOOK", next_index |-> 0, zone_assignments |-> NoZones]

NearestElevatorStrategy == [kind |-> "NEAREST", next_index |-> 0, zone_assignments |-> NoZones]

FCFSDispatchStrategy == [kind |-> "FCFS", next_index |-> 0, zone_assignments |-> NoZones]

ZonedDispatchStrategy(zone_assignments) ==
    [kind |-> "ZONED", next_index |-> 0, zone_assignments |-> zone_assignments]

\* A strategy written by the user of the library (a subclass of
\* DispatchStrategy) whose select_elevator raises an exception.
RaisingStrategy == [kind |-> "RAISING", next_index |-> 0, zone_assignments |-> NoZones]

\* strategy.select_elevator(request, elevators) raises.
select_raises(strat, r, fleet) == strat.kind = "RAISING"

\* strategy.select_elevator(request, elevators): the car returned.
select_elevator(strat, r, fleet) ==
    CASE strat.kind = "LOOK" -> look_select_elevator(r, fleet)
      [] strat.kind = "NEAREST" -> nearest_select_elevator(r, fleet)
      [] strat.kind = "FCFS" -> fcfs_select_elevator(strat.next_index, r, fleet).elevator
      [] strat.kind = "ZONED" -> zoned_select_elevator(strat.zone_assignments, r, fleet)

\* strategy.select_elevator(request, elevators): the strategy object after
\* the call.  Only FCFS keeps state.
strategy_after_select(strat, r, fleet) ==
    IF strat.kind = "FCFS"
      THEN [strat EXCEPT !.next_index =
                            fcfs_select_elevator(strat.next_index, r, fleet).next_index]
      ELSE strat

(***************************************************************************)
(* controller.py: ElevatorController.                                      *)
(***************************************************************************)
\* _dispatch_request without its final queueing: an unplaced request is lost.
dispatch_request_drops(strat, fleet, queue, r) ==
    LET e == select_elevator(strat, r, fleet)
        after == strategy_after_select(strat, r, fleet)
    IN IF e /= 0 /\ add_request(fleet[e], r).ok
         THEN [cars |-> [fleet EXCEPT ![e] = add_request(fleet[e], r).car],
               pending |-> queue, strategy |-> after, ok |-> TRUE]
         ELSE [cars |-> fleet, pending |-> queue, strategy |-> after,
               ok |-> FALSE]

\* ElevatorController._dispatch_request, lines 129-138: the fleet, the
\* pending queue and the strategy object after the call, and the value
\* returned.
dispatch_request(strat, fleet, queue, r) ==
    LET e == select_elevator(strat, r, fleet)
        after == strategy_after_select(strat, r, fleet)
    IN IF e /= 0 /\ add_request(fleet[e], r).ok
         THEN [cars |-> [fleet EXCEPT ![e] = add_request(fleet[e], r).car],
               pending |-> queue, strategy |-> after, ok |-> TRUE]
         ELSE [cars |-> fleet, pending |-> Append(queue, r),
               strategy |-> after, ok |-> FALSE]

\* drain_pending forgetting the requests that failed.
RECURSIVE drain_pending_forgets(_, _)
drain_pending_forgets(acc, queue) ==
    IF queue = <<>> THEN [acc EXCEPT !.rest = <<>>]
    ELSE LET r == Head(queue)
             tried == [acc EXCEPT !.tried = Append(@, r.id)]
         IN IF select_raises(acc.strategy, r, acc.cars)
              THEN [tried EXCEPT !.rest = Tail(queue)]
            ELSE
             LET e == select_elevator(acc.strategy, r, acc.cars)
                 after == strategy_after_select(acc.strategy, r, acc.cars)
             IN Bind(IF e /= 0 /\ add_request(acc.cars[e], r).ok
                       THEN [tried EXCEPT
                               !.cars[e] = add_request(acc.cars[e], r).car,
                               !.strategy = after]
                       ELSE [tried EXCEPT !.strategy = after],
                     LAMBDA a : drain_pending_forgets(a, Tail(queue)))

\* ElevatorController._process_pending_requests, lines 145-155: the loop over
\* the queue.  acc.retry is retry_queue, acc.rest what the loop leaves in
\* _pending_requests, acc.tried (history only) the requests taken from the
\* queue, in order.  An exception raised inside the try ends the loop (lines
\* 156-157); the request taken from the queue at line 147 is then in neither
\* list.
RECURSIVE drain_pending(_, _)
drain_pending(acc, queue) ==
    IF queue = <<>> THEN [acc EXCEPT !.rest = <<>>]
    ELSE LET r == Head(queue)
             tried == [acc EXCEPT !.tried = Append(@, r.id)]
         IN IF select_raises(acc.strategy, r, acc.cars)
              THEN [tried EXCEPT !.rest = Tail(queue)]
            ELSE
             LET e == select_elevator(acc.strategy, r, acc.cars)
                 after == strategy_after_select(acc.strategy, r, acc.cars)
             IN Bind(IF e /= 0 /\ add_request(acc.cars[e], r).ok
                       THEN [tried EXCEPT
                               !.cars[e] = add_request(acc.cars[e], r).car,
                               !.strategy = after]
                       ELSE [tried EXCEPT !.retry = Append(@, r),
                                          !.strategy = after],
                     LAMBDA a : drain_pending(a, Tail(queue)))

\* ElevatorController._process_pending_requests: the fleet, the pending
\* queue and the strategy object after the call; lines 160-161 put the
\* requests of retry_queue behind what the loop left in the queue.
process_pending_requests(strat, fleet, queue) ==
    LET acc == drain_pending([cars |-> fleet, retry |-> <<>>, rest |-> <<>>,
                              tried |-> <<>>, strategy |-> strat], queue)
    IN [cars |-> acc.cars, pending |-> acc.rest \o acc.retry,
        strategy |-> acc.strategy, tried |-> acc.tried]

(***************************************************************************)
(* State.                                                                  *)
(***************************************************************************)
VARIABLES
    cars,       \* the fleet: car id -> car record
    next_id,    \* the identity the next request gets
    last,       \* the last operation: its kind, its request, its result
    pending,    \* _pending_requests, a FIFO queue
    strategy,   \* _dispatch_strategy
    lock_owner, \* the ticker holding the controller's _lock, or 0
    running,    \* _running
    stop_event, \* _stop_event is set
    simulation_thread,  \* _simulation_thread: a ticker, or 0 for None
    ticker,     \* ticker thread -> where it is in _simulation_loop
    tick_pos,   \* the car the tick in progress steps next, or 0
    caller,     \* caller thread -> where it is in stop()
    join_target,  \* caller thread -> the thread it joins, or 0
    call,       \* the last direct call of strategy.select_elevator
    adders      \* thread -> its call of add_request on car 1 in progress

controller_vars == <<pending, strategy, lock_owner, running, stop_event,
                     simulation_thread, ticker, tick_pos, caller, join_target,
                     call>>

\* No call of select_elevator yet.
NoCall == [strategy |-> LookDispatchStrategy, req |-> NoRequest, elevator |-> 0,
           advances |-> 0, made |-> FALSE]

vars == <<cars, next_id, last, controller_vars, adders>>

Tickers == 1..MaxTickers
Callers == 1..NumCallers
Adders == 1..NumAdders

\* No thread has called add_request.
NoAdders ==
    [t \in Adders |-> [pc |-> "idle", req |-> NoRequest, missing |-> FALSE,
                       result |-> FALSE]]

\* ElevatorController.__init__, lines 54-65
ControllerInit ==
    /\ adders = NoAdders
    /\ pending = <<>>
    /\ strategy = LookDispatchStrategy
    /\ call = NoCall
    /\ lock_owner = 0
    /\ running = FALSE
    /\ stop_event = FALSE
    /\ simulation_thread = 0
    /\ ticker = [t \in Tickers |-> "unborn"]
    /\ tick_pos = 0
    /\ caller = [c \in Callers |-> "idle"]
    /\ join_target = [c \in Callers |-> 0]

(***************************************************************************)
(* Specification CarSpec: one car driven directly through add_request and *)
(* step, as the tests of elevator.py drive it.                            *)
(***************************************************************************)
CarInit ==
    /\ \E cap \in Capacities, start \in CarFloors :
         cars = [i \in {1} |-> Elevator(i, 0, MaxFloor, cap, start)]
    /\ next_id = 1
    /\ last = [op |-> "init", req |-> NoRequest, ok |-> TRUE]
    /\ ControllerInit

\* elevator.add_request(Request(...)): the caller constructs a request and
\* offers it to the car.
CarAddRequest ==
    /\ next_id <= MaxRequests
    /\ \E r \in RequestSpace(next_id) :
         LET res == add_request(cars[1], r)
         IN /\ cars' = [cars EXCEPT ![1] = res.car]
            /\ last' = [op |-> "add", req |-> r, ok |-> res.ok]
    /\ next_id' = next_id + 1
    /\ UNCHANGED <<controller_vars, adders>>

\* elevator.step()
CarStep ==
    /\ \E c2 \in step(cars[1]) : cars' = [cars EXCEPT ![1] = c2]
    /\ last' = [op |-> "step", req |-> NoRequest, ok |-> TRUE]
    /\ UNCHANGED <<next_id, controller_vars, adders>>

CarNext == CarAddRequest \/ CarStep

CarSpec == CarInit /\ [][CarNext]_vars

\* The caller of step() keeps calling it (the loops of the tests, the ticker
\* of the controller); requests stop arriving after MaxRequests of them.
CarFairSpec == CarSpec /\ WF_vars(CarStep)

(***************************************************************************)
(* Specification AddersSpec: threads that each call add_request on one    *)
(* fresh car, one statement of the method at a time.                       *)
(***************************************************************************)
\* An RLock that excludes nobody.
lock_acquirable_always(c, t) == TRUE

\* Elevator.add_request, line 164: `with self._lock` on the reentrant lock
\* can be entered by thread t.
lock_acquirable(c, t) == c.lock \in {0, t}

\* Thread t calls add_request(r) with a request it constructed.
AddCall(t) ==
    /\ adders[t].pc = "idle"
    /\ \E r \in RequestSpace(t) :
         adders' = [adders EXCEPT ![t] = [@ EXCEPT !.pc = "acquire", !.req = r]]
    /\ last' = [op |-> "add_call", req |-> NoRequest, ok |-> TRUE]
    /\ UNCHANGED <<cars, next_id, controller_vars>>

\* Elevator.add_request, lines 164-166: take the lock; a request the car
\* cannot accept returns False.
AddAcquire(t) ==
    /\ adders[t].pc = "acquire"
    /\ lock_acquirable(cars[1], t)
    /\ IF can_accept_request(cars[1], adders[t].req)
         THEN /\ cars' = [cars EXCEPT ![1] = [enter(@) EXCEPT !.lock = t]]
              /\ adders' = [adders EXCEPT ![t].pc = "test_pickup"]
         ELSE /\ cars' = [cars EXCEPT ![1] = enter(@)]
              /\ adders' = [adders EXCEPT ![t].pc = "returned",
                                          ![t].result = FALSE]
    /\ last' = [op |-> "add_acquire", req |-> adders[t].req, ok |-> TRUE]
    /\ UNCHANGED <<next_id, controller_vars>>

\* Elevator.add_request, lines 173 and 177: `if floor not in
\* self._active_requests`, for the pickup and then the destination floor.
AddTest(t) ==
    /\ adders[t].pc \in {"test_pickup", "test_destination"}
    /\ LET floor == IF adders[t].pc = "test_pickup"
                      THEN adders[t].req.pickup_floor
                      ELSE adders[t].req.destination_floor
       IN adders' = [adders EXCEPT
                       ![t].missing = (cars[1].active_requests[floor] = {}),
                       ![t].pc = IF adders[t].pc = "test_pickup"
                                   THEN "put_pickup" ELSE "put_destination"]
    /\ last' = [op |-> "add_test", req |-> adders[t].req, ok |-> TRUE]
    /\ UNCHANGED <<cars, next_id, controller_vars>>

\* Elevator.add_request, lines 174-175 and 178-179: a new set for a floor
\* found missing, then the request added to the floor's set.
AddPut(t) ==
    /\ adders[t].pc \in {"put_pickup", "put_destination"}
    /\ LET floor == IF adders[t].pc = "put_pickup"
                      THEN adders[t].req.pickup_floor
                      ELSE adders[t].req.destination_floor
       IN cars' = [cars EXCEPT ![1].active_requests[floor] =
                     (IF adders[t].missing THEN {} ELSE @) \cup {adders[t].req}]
    /\ adders' = [adders EXCEPT
                    ![t].pc = IF adders[t].pc = "put_pickup"
                                THEN "test_destination" ELSE "stops"]
    /\ last' = [op |-> "add_put", req |-> adders[t].req, ok |-> TRUE]
    /\ UNCHANGED <<next_id, controller_vars>>

\* Elevator.add_request, lines 182-187: both floors join the stop set of
\* the request's direction.
AddStops(t) ==
    /\ adders[t].pc = "stops"
    /\ LET r == adders[t].req
           stops == {r.pickup_floor, r.destination_floor}
       IN cars' = [cars EXCEPT ![1] =
                     IF request_direction(r) = UP
                       THEN [@ EXCEPT !.up_stops = @ \cup stops]
                       ELSE [@ EXCEPT !.down_stops = @ \cup stops]]
    /\ adders' = [adders EXCEPT ![t].pc = "direction"]
    /\ last' = [op |-> "add_stops", req |-> adders[t].req, ok |-> TRUE]
    /\ UNCHANGED <<next_id, controller_vars>>

\* Elevator.add_request, lines 190-200: an IDLE car takes its direction,
\* the observers are notified, the lock is released and True returned.
AddReturn(t) ==
    /\ adders[t].pc = "direction"
    /\ LET r == adders[t].req
           c == cars[1]
           c3 == IF c.direction = IDLE
                   THEN [c EXCEPT !.direction = initial_direction(c, r)]
                   ELSE c
           c4 == [c3 EXCEPT !.h_sweep = sweep_after_add(c, r),
                            !.h_was_idle = (c.direction = IDLE)]
       IN cars' = [cars EXCEPT ![1] =
                     [notify(c4, "request_accepted", c4.current_floor, r.id)
                        EXCEPT !.lock = 0]]
    /\ adders' = [adders EXCEPT ![t].pc = "returned", ![t].result = TRUE]
    /\ last' = [op |-> "add", req |-> adders[t].req, ok |-> TRUE]
    /\ UNCHANGED <<next_id, controller_vars>>

AddersNext ==
    \E t \in Adders :
       \/ AddCall(t) \/ AddAcquire(t) \/ AddTest(t) \/ AddPut(t)
       \/ AddStops(t) \/ AddReturn(t)

AddersSpec == CarInit /\ [][AddersNext]_vars

(***************************************************************************)
(* Specification ReaderSpec: thread 1 drives one car through add_request  *)
(* and step, one statement group at a time, while the other threads call   *)
(* get_state.  The history field h_turns is not kept here.                 *)
(***************************************************************************)
\* The thread is between two calls.
between_calls(t) == adders[t].pc \in {"idle", "returned"}

\* The driving thread calls add_request(r) with a new request.
DriveAdd(t) ==
    /\ between_calls(t)
    /\ next_id <= MaxDriven
    /\ \E r \in RequestSpace(next_id) :
         adders' = [adders EXCEPT ![t] = [NoAdders[t] EXCEPT !.pc = "acquire",
                                                             !.req = r]]
    /\ next_id' = next_id + 1
    /\ last' = [op |-> "add_call", req |-> NoRequest, ok |-> TRUE]
    /\ UNCHANGED <<cars, controller_vars>>

\* The driving thread calls step().
DriveStep(t) ==
    /\ between_calls(t)
    /\ adders' = [adders EXCEPT ![t] = [NoAdders[t] EXCEPT !.pc = "step_acquire"]]
    /\ last' = [op |-> "step_call", req |-> NoRequest, ok |-> TRUE]
    /\ UNCHANGED <<cars, next_id, controller_vars>>

\* Elevator.step, lines 213-215: take the lock; an IDLE car returns.
StepAcquire(t) ==
    /\ adders[t].pc = "step_acquire"
    /\ lock_acquirable(cars[1], t)
    /\ IF cars[1].direction = IDLE
         THEN /\ cars' = [cars EXCEPT ![1] = enter(@)]
              /\ adders' = [adders EXCEPT ![t].pc = "returned"]
         ELSE /\ cars' = [cars EXCEPT ![1] = [enter(@) EXCEPT !.lock = t]]
              /\ adders' = [adders EXCEPT ![t].pc = "arrive_first"]
    /\ last' = [op |-> "step_acquire", req |-> NoRequest, ok |-> TRUE]
    /\ UNCHANGED <<next_id, controller_vars>>

\* Elevator.step, lines 218-219 and 227-228, and _process_current_floor,
\* lines 246-254: at a stop the door opens.
StepArrive(t) ==
    /\ adders[t].pc \in {"arrive_first", "arrive_second"}
    /\ LET first == adders[t].pc = "arrive_first"
       IN IF is_current_floor_a_stop(cars[1])
            THEN /\ cars' = [cars EXCEPT ![1] = open_door(@)]
                 /\ adders' = [adders EXCEPT ![t].pc =
                                  IF first THEN "handle_first" ELSE "handle_second"]
            ELSE /\ adders' = [adders EXCEPT ![t].pc =
                                  IF first THEN "move" ELSE "update"]
                 /\ UNCHANGED cars
    /\ last' = [op |-> "step_arrive", req |-> NoRequest, ok |-> TRUE]
    /\ UNCHANGED <<next_id, controller_vars>>

\* Elevator._process_current_floor, lines 257-278: passengers leave and
\* board while the door is open.
StepHandle(t) ==
    /\ adders[t].pc \in {"handle_first", "handle_second"}
    /\ \E o \in Orders(cars[1].active_requests[cars[1].current_floor]) :
         cars' = [cars EXCEPT ![1] = handle_floor(@, o)]
    /\ adders' = [adders EXCEPT ![t].pc =
                     IF adders[t].pc = "handle_first" THEN "close_first"
                                                      ELSE "close_second"]
    /\ last' = [op |-> "step_handle", req |-> NoRequest, ok |-> TRUE]
    /\ UNCHANGED <<next_id, controller_vars>>

\* Elevator._process_current_floor, lines 281-282: the door closes.
StepClose(t) ==
    /\ adders[t].pc \in {"close_first", "close_second"}
    /\ cars' = [cars EXCEPT ![1] = close_door(@)]
    /\ adders' = [adders EXCEPT ![t].pc =
                     IF adders[t].pc = "close_first" THEN "move" ELSE "update"]
    /\ last' = [op |-> "step_close", req |-> NoRequest, ok |-> TRUE]
    /\ UNCHANGED <<next_id, controller_vars>>

\* Elevator.step, lines 222-224: with a stop pending the car moves one
\* floor and reports the floor it reached.
StepMove(t) ==
    /\ adders[t].pc = "move"
    /\ IF has_pending_stops(cars[1])
         THEN /\ cars' = [cars EXCEPT ![1] =
                           Bind(move(@), LAMBDA m :
                             notify(m, "floor_reached", m.current_floor, 0))]
              /\ adders' = [adders EXCEPT ![t].pc = "arrive_second"]
         ELSE /\ adders' = [adders EXCEPT ![t].pc = "update"]
              /\ UNCHANGED cars
    /\ last' = [op |-> "step_move", req |-> NoRequest, ok |-> TRUE]
    /\ UNCHANGED <<next_id, controller_vars>>

\* Elevator.step, line 231: the direction is updated, the lock released.
StepReturn(t) ==
    /\ adders[t].pc = "update"
    /\ cars' = [cars EXCEPT ![1] =
                  [end_sweep(update_direction(@)) EXCEPT !.lock = 0]]
    /\ adders' = [adders EXCEPT ![t].pc = "returned"]
    /\ last' = [op |-> "step", req |-> NoRequest, ok |-> TRUE]
    /\ UNCHANGED <<next_id, controller_vars>>

\* get_state entering without the lock.
get_state_enters_unlocked(c, t) == TRUE

\* Elevator.get_state, line 119: `with self._lock` can be entered by
\* thread t.
get_state_enters(c, t) == lock_acquirable(c, t)

\* Elevator.get_state, called by thread t: the snapshot is built under the
\* lock and returned.
GetState(t) ==
    /\ adders[t].pc = "idle"
    /\ get_state_enters(cars[1], t)
    /\ last' = [op |-> "get_state", req |-> NoRequest, ok |-> TRUE,
                state |-> get_state(cars[1])]
    /\ UNCHANGED <<cars, next_id, controller_vars, adders>>

ReaderNext ==
    \/ \E t \in {1} :
          \/ DriveAdd(t) \/ AddAcquire(t) \/ AddTest(t) \/ AddPut(t)
          \/ AddStops(t) \/ AddReturn(t)
          \/ DriveStep(t) \/ StepAcquire(t) \/ StepArrive(t) \/ StepHandle(t)
          \/ StepClose(t) \/ StepMove(t) \/ StepReturn(t)
    \/ \E t \in Adders \ {1} : GetState(t)

ReaderSpec == CarInit /\ [][ReaderNext]_vars

(***************************************************************************)
(* Specification ObserverSpec: one car with registered observers, some of *)
(* which raise from every callback.                                        *)
(***************************************************************************)
\* The lists of observers registered before the car is used.
RECURSIVE ObserverLists(_)
ObserverLists(n) ==
    IF n = 0 THEN {<<>>}
    ELSE LET S == ObserverLists(n - 1)
         IN S \cup { Append(l, o) : l \in { x \in S : Len(x) = n - 1 },
                                    o \in {"returns", "raises"} }

\* The car with the observers of l added in order.
RECURSIVE with_observers(_, _)
with_observers(c, l) ==
    IF l = <<>> THEN c
    ELSE with_observers(add_observer(c, Head(l)), Tail(l))

ObserverInit ==
    /\ \E l \in ObserverLists(MaxObservers) :
         cars = [i \in {1} |->
                   with_observers(
                     Elevator(i, DefaultMinFloor, MaxFloor, MaxPassengers,
                              DefaultStartFloor), l)]
    /\ next_id = 1
    /\ last = [op |-> "init", req |-> NoRequest, ok |-> TRUE]
    /\ ControllerInit

ObserverSpec == ObserverInit /\ [][CarNext]_vars

(***************************************************************************)
(* Specification Spec: the controller with its fleet, threads that call   *)
(* request_elevator, start and stop, and the ticker threads start makes.  *)
(***************************************************************************)
Init ==
    /\ cars = [i \in 1..NumCars |->
                 Elevator(i, DefaultMinFloor, MaxFloor, DefaultCapacity,
                          DefaultStartFloor)]
    /\ next_id = 1
    /\ last = [op |-> "init", req |-> NoRequest, ok |-> TRUE]
    /\ ControllerInit

\* The requests request_elevator is called for: floors 0..MaxFloor+1, so
\* that no car serves the highest one.
SubmittedSpace(id) ==
    { Request(id, p, d, DefaultPassengers) : <<p, d>> \in
        { x \in (0..(MaxFloor + 1)) \X (0..(MaxFloor + 1)) :
            request_valid(x[1], x[2], DefaultPassengers) } }

Alive(t) == ticker[t] \notin {"unborn", "dead"}

\* The thread start() would create.
NextTicker == Cardinality({ t \in Tickers : ticker[t] /= "unborn" }) + 1

\* _dispatch_request entering without the lock.
dispatch_enters_unlocked == TRUE

\* ElevatorController._dispatch_request, line 128: `with self._lock`.
dispatch_enters == lock_owner = 0

\* Request.__post_init__ accepting every argument.
request_valid_always(pickup, destination, passengers) == TRUE

\* Request.__post_init__ as request_elevator meets it: the arguments for
\* which the construction at controller.py line 113 does not raise.
request_constructed(pickup, destination, passengers) ==
    request_valid(pickup, destination, passengers)

\* ElevatorController.request_elevator(from_floor, to_floor, passengers):
\* the Request is constructed first (lines 113-117), which raises ValueError
\* before anything else happens; a constructed request is dispatched under
\* the lock and returned.  last records the call: the request returned, or
\* the arguments of the call that raised.
request_elevator(from_floor, to_floor, passengers) ==
    /\ IF request_constructed(from_floor, to_floor, passengers)
         THEN /\ dispatch_enters
              /\ LET r == Request(next_id, from_floor, to_floor, passengers)
                     d == dispatch_request(strategy, cars, pending, r)
                 IN IF select_raises(strategy, r, cars)
                      THEN \* the exception leaves _dispatch_request at
                           \* line 129 and request_elevator with it
                           /\ last' = [op |-> "request_raised", req |-> r,
                                       ok |-> FALSE]
                           /\ UNCHANGED <<cars, pending, strategy>>
                      ELSE /\ cars' = d.cars
                           /\ pending' = d.pending
                           /\ strategy' = d.strategy
                           /\ last' = [op |-> "request", req |-> r, ok |-> d.ok]
              /\ next_id' = next_id + 1
         ELSE /\ last' = [op |-> "request_error",
                          req |-> Request(0, from_floor, to_floor, passengers),
                          ok |-> FALSE]
              /\ UNCHANGED <<cars, pending, strategy, next_id>>
    /\ UNCHANGED <<adders, call, lock_owner, running, stop_event,
                   simulation_thread, ticker, tick_pos, caller, join_target>>

\* ElevatorController.request_elevator, called until n requests were made.
RequestElevatorUpTo(n) ==
    /\ next_id <= n
    /\ \E r \in SubmittedSpace(next_id) :
         request_elevator(r.pickup_floor, r.destination_floor, r.passengers)

\* ElevatorController.request_elevator
RequestElevator == RequestElevatorUpTo(MaxSubmitted)

\* start() creating a thread whether or not the controller runs.
start_returns_early_never == FALSE

\* ElevatorController.start, lines 184-185: `if self._running: return`.
start_returns_early == running

\* ElevatorController.start
Start(c) ==
    /\ caller[c] = "idle"
    /\ lock_owner = 0
    /\ IF start_returns_early
         THEN UNCHANGED <<running, stop_event, simulation_thread, ticker>>
         ELSE /\ NextTicker <= MaxTickers
              /\ running' = TRUE
              /\ stop_event' = FALSE
              /\ simulation_thread' = NextTicker
              /\ ticker' = [ticker EXCEPT ![NextTicker] = "check"]
    /\ last' = [op |-> "start", req |-> NoRequest, ok |-> ~start_returns_early]
    /\ UNCHANGED <<adders, cars, next_id, pending, strategy, call, lock_owner, tick_pos,
                   caller, join_target>>

\* ElevatorController.stop, lines 203-208: the part under the lock.
Stop(c) ==
    /\ caller[c] = "idle"
    /\ lock_owner = 0
    /\ IF ~running
         THEN UNCHANGED <<running, stop_event, caller>>
         ELSE /\ running' = FALSE
              /\ stop_event' = TRUE
              /\ caller' = [caller EXCEPT ![c] = "released"]
    /\ last' = [op |-> "stop", req |-> NoRequest, ok |-> running]
    /\ UNCHANGED <<adders, cars, next_id, pending, strategy, call, lock_owner,
                   simulation_thread, ticker, tick_pos, join_target>>

\* ElevatorController.stop, lines 210-211: after the lock is released,
\* _simulation_thread is read and joined.
StopJoin(c) ==
    /\ caller[c] = "released"
    /\ IF simulation_thread = 0
         THEN /\ caller' = [caller EXCEPT ![c] = "idle"]
              /\ UNCHANGED join_target
         ELSE /\ caller' = [caller EXCEPT ![c] = "join"]
              /\ join_target' = [join_target EXCEPT ![c] = simulation_thread]
    /\ last' = [op |-> "stop_join", req |-> NoRequest, ok |-> TRUE]
    /\ UNCHANGED <<adders, cars, next_id, pending, strategy, call, lock_owner, running,
                   stop_event, simulation_thread, ticker, tick_pos>>

\* join() with no timeout: it returns only when the thread has ended.
join_returns_untimed(c) == ticker[join_target[c]] = "dead"

\* ElevatorController.stop, line 211: join(timeout=timeout) returns when the
\* thread has ended or when the timeout has passed, whichever is first.
join_returns(c) ==
    \E timed_out \in BOOLEAN : timed_out \/ ticker[join_target[c]] = "dead"

\* ElevatorController.stop, line 211: join returns (None in either case) and
\* so does stop().
JoinReturn(c) ==
    /\ caller[c] = "join"
    /\ join_returns(c)
    /\ caller' = [caller EXCEPT ![c] = "idle"]
    /\ join_target' = [join_target EXCEPT ![c] = 0]
    /\ last' = [op |-> "join_return", req |-> NoRequest, ok |-> TRUE]
    /\ UNCHANGED <<adders, cars, next_id, pending, strategy, call, lock_owner, running,
                   stop_event, simulation_thread, ticker, tick_pos>>

\* ElevatorController._simulation_loop, line 215: the loop test.
TickerCheck(t) ==
    /\ ticker[t] = "check"
    /\ ticker' = [ticker EXCEPT ![t] = IF stop_event THEN "dead" ELSE "acquire"]
    /\ last' = [op |-> "check", req |-> NoRequest, ok |-> ~stop_event]
    /\ UNCHANGED <<adders, cars, next_id, pending, strategy, call, lock_owner, running,
                   stop_event, simulation_thread, tick_pos, caller, join_target>>

\* ElevatorController.step, lines 169-171: take the lock, which is
\* reentrant (line 62), and drain the pending queue.
TickerDrain(t) ==
    /\ ticker[t] = "acquire"
    /\ lock_owner \in {0, t}
    /\ lock_owner' = t
    /\ LET d == process_pending_requests(strategy, cars, pending)
       IN /\ cars' = d.cars
          /\ pending' = d.pending
          /\ strategy' = d.strategy
    /\ ticker' = [ticker EXCEPT ![t] = "cars"]
    /\ tick_pos' = 1
    /\ last' = [op |-> "drain", req |-> NoRequest, ok |-> TRUE]
    /\ UNCHANGED <<adders, call, next_id, running, stop_event, simulation_thread,
                   caller, join_target>>

\* step keeping the lock when it returns.
lock_kept_after_step(t) == t

\* ElevatorController.step, line 169: the owner of the lock when the `with`
\* block of step ends.
lock_after_step(t) == 0

\* ElevatorController.step, lines 174-175: step the next car; after the
\* last car the lock is released and the ticker sleeps (line 217).
TickerStepCar(t) ==
    /\ ticker[t] = "cars"
    /\ lock_owner = t
    /\ \E c2 \in step(cars[tick_pos]) : cars' = [cars EXCEPT ![tick_pos] = c2]
    /\ IF tick_pos < NumCars
         THEN /\ tick_pos' = tick_pos + 1
              /\ UNCHANGED <<lock_owner, ticker>>
         ELSE /\ tick_pos' = 0
              /\ lock_owner' = lock_after_step(t)
              /\ ticker' = [ticker EXCEPT ![t] = "sleep"]
    /\ last' = [op |-> "car_step", req |-> NoRequest, ok |-> TRUE]
    /\ UNCHANGED <<adders, next_id, pending, strategy, call, running, stop_event,
                   simulation_thread, caller, join_target>>

\* ElevatorController._simulation_loop, line 217: time.sleep returns.
TickerWake(t) ==
    /\ ticker[t] = "sleep"
    /\ ticker' = [ticker EXCEPT ![t] = "check"]
    /\ last' = [op |-> "wake", req |-> NoRequest, ok |-> TRUE]
    /\ UNCHANGED <<adders, cars, next_id, pending, strategy, call, lock_owner, running,
                   stop_event, simulation_thread, tick_pos, caller, join_target>>

CallerNext == \E c \in Callers : Start(c) \/ Stop(c) \/ StopJoin(c) \/ JoinReturn(c)

TickerNext(t) == TickerCheck(t) \/ TickerDrain(t) \/ TickerStepCar(t) \/ TickerWake(t)

Next == RequestElevator \/ CallerNext \/ \E t \in Tickers : TickerNext(t)

Spec == Init /\ [][Next]_vars

(***************************************************************************)
(* Specification LifecycleSpec: start() and stop() from several threads   *)
(* and the tickers they make, over a fleet nobody sends requests to.       *)
(***************************************************************************)
LifecycleNext == CallerNext \/ \E t \in Tickers : TickerNext(t)

LifecycleSpec == Init /\ [][LifecycleNext]_vars

\* Every thread that can take a step eventually takes it: a caller inside
\* stop(), a ticker at its loop test, inside its tick or asleep.  The lock is
\* taken and released over and over by other threads, so acquiring it is
\* strongly fair.  Calls of start() and stop() are the environment's: no
\* fairness.
FairLifecycleSpec ==
    /\ LifecycleSpec
    /\ \A c \in Callers : WF_vars(StopJoin(c) \/ JoinReturn(c))
    /\ \A t \in Tickers :
          /\ WF_vars(TickerCheck(t) \/ TickerStepCar(t) \/ TickerWake(t))
          /\ SF_vars(TickerDrain(t))

(***************************************************************************)
(* Specification LockSpec: request_elevator, start() and stop() called    *)
(* while the tickers run, with the fairness of FairLifecycleSpec: threads  *)
(* inside a call or a tick go on; the calls are the environment's.         *)
(***************************************************************************)
LockNext ==
    \/ RequestElevatorUpTo(MaxContended)
    \/ CallerNext
    \/ \E t \in Tickers : TickerNext(t)

LockSpec ==
    /\ Init
    /\ [][LockNext]_vars
    /\ \A c \in Callers : WF_vars(StopJoin(c) \/ JoinReturn(c))
    /\ \A t \in Tickers :
          /\ WF_vars(TickerCheck(t) \/ TickerStepCar(t) \/ TickerWake(t))
          /\ SF_vars(TickerDrain(t))

(***************************************************************************)
(* Specification StrategySpec: strategy.select_elevator(request, fleet)    *)
(* called directly, as the tests do, on fleets of cars that have accepted *)
(* some requests and taken some steps.                                     *)
(***************************************************************************)
\* Elevator(i, capacity=cap, start_floor=start)
setup_fresh(i) ==
    { Elevator(i, DefaultMinFloor, MaxFloor, cap, start) :
        cap \in Capacities, start \in CarFloors }

\* The requests a car is given before the strategy is asked: the k-th one.
setup_requests(k) ==
    { Request(k, x[1], x[2], x[3]) :
        x \in { y \in CarFloors \X CarFloors \X (1..MaxPassengers) :
                  request_valid(y[1], y[2], y[3]) } }

\* The cars after at most k calls of add_request.
RECURSIVE setup_added(_, _)
setup_added(i, k) ==
    IF k = 0 THEN setup_fresh(i)
    ELSE LET S == setup_added(i, k - 1)
         IN S \cup { add_request(c, r).car : c \in S, r \in setup_requests(k) }

\* The cars of S after at most k calls of step.
RECURSIVE setup_stepped(_, _)
setup_stepped(S, k) ==
    IF k = 0 THEN S
    ELSE LET T == setup_stepped(S, k - 1)
         IN T \cup UNION { step(c) : c \in T }

SetupCars(i) ==
    setup_stepped(setup_added(i, MaxSetupRequests), MaxSetupSteps)

\* What a strategy reads of a car: can_accept_request reads the range and
\* the capacity, get_state the rest.
strategy_view(c) ==
    <<c.min_floor, c.max_floor, c.capacity, c.current_floor, c.direction,
      10 * c.current_load >= 8 * c.capacity, total_pending_stops(get_state(c))>>

\* One car of SetupCars(i) for every view a strategy can have of one.
FleetCars(i) ==
    LET S == SetupCars(i)
    IN { CHOOSE c \in S : strategy_view(c) = v : v \in { strategy_view(c) : c \in S } }

\* The fleets of n cars.
RECURSIVE Fleets(_)
Fleets(n) ==
    IF n = 0 THEN { <<>> }
    ELSE { Append(f, c) : f \in Fleets(n - 1), c \in FleetCars(n) }

\* The zone set_zone assigns: every floor but the top one.
Zones == { <<DefaultMinFloor, MaxFloor - 1>> }

\* zone_assignments: some of the cars have a zone.
ZoneAssignments(n) ==
    UNION { [ids -> Zones] : ids \in SUBSET (1..n) }

Strategies(n) ==
    {LookDispatchStrategy, NearestElevatorStrategy, FCFSDispatchStrategy}
      \cup { ZonedDispatchStrategy(z) : z \in ZoneAssignments(n) }

StrategyInit ==
    /\ \E n \in 0..NumCars :
          /\ cars \in Fleets(n)
          /\ \E strat \in Strategies(n) :
                /\ strategy = strat
                /\ call = [NoCall EXCEPT !.strategy = strat]
    /\ next_id = 1
    /\ last = [op |-> "init", req |-> NoRequest, ok |-> TRUE]
    /\ adders = NoAdders
    /\ pending = <<>>
    /\ lock_owner = 0
    /\ running = FALSE
    /\ stop_event = FALSE
    /\ simulation_thread = 0
    /\ ticker = [t \in Tickers |-> "unborn"]
    /\ tick_pos = 0
    /\ caller = [c \in Callers |-> "idle"]
    /\ join_target = [c \in Callers |-> 0]

\* The requests a strategy is asked about: floors 0..MaxFloor+1, so that no
\* car serves the highest one.
SelectSpace ==
    { Request(MaxSetupRequests + 1, x[1], x[2], x[3]) :
        x \in { y \in (0..(MaxFloor + 1)) \X (0..(MaxFloor + 1)) \X (1..MaxPassengers) :
                  request_valid(y[1], y[2], y[3]) } }

\* strategy.select_elevator(r, cars), called directly: call records the
\* strategy object before the call, the request, the car returned and, for
\* FCFS, how often _next_index advanced.
select_call(r) ==
    /\ call' = [strategy |-> strategy, req |-> r,
                elevator |-> select_elevator(strategy, r, cars),
                advances |->
                   IF strategy.kind = "FCFS"
                     THEN fcfs_select_elevator(strategy.next_index, r, cars).advances
                     ELSE 0,
                made |-> TRUE]
    /\ strategy' = strategy_after_select(strategy, r, cars)
    /\ last' = [op |-> "select", req |-> r,
                ok |-> select_elevator(strategy, r, cars) /= 0]
    /\ UNCHANGED <<adders, cars, next_id, pending, lock_owner, running, stop_event,
                   simulation_thread, ticker, tick_pos, caller, join_target>>

\* The first call on a new strategy object.
Select ==
    /\ ~call.made
    /\ \E r \in SelectSpace : select_call(r)

\* A further call on the strategy object that keeps state between calls.
SelectAgain ==
    /\ call.made
    /\ strategy.kind = "FCFS"
    /\ \E r \in SelectSpace : select_call(r)

StrategyNext == Select \/ SelectAgain

StrategySpec == StrategyInit /\ [][StrategyNext]_vars

(***************************************************************************)
(* The controller driven by one thread: set_dispatch_strategy,             *)
(* request_elevator with any arguments and step, called in any order.      *)
(***************************************************************************)
\* The arguments request_elevator is called with: floors up to one above
\* the top floor, passenger counts from 0.
CallSpace == (0..(MaxFloor + 1)) \X (0..(MaxFloor + 1)) \X (0..MaxPassengers)

\* set_dispatch_strategy without its assignment.
set_dispatch_strategy_ignored(current, given) == current

\* ElevatorController.set_dispatch_strategy, line 79: the strategy the
\* controller dispatches with after the call.
set_dispatch_strategy(current, given) == given

\* ElevatorController.set_dispatch_strategy, lines 78-79, called with a
\* strategy of S.  call.strategy records the strategy object the controller
\* was last given.
SetDispatchStrategyAmong(S) ==
    /\ lock_owner = 0
    /\ \E s \in S :
         /\ strategy' = set_dispatch_strategy(strategy, s)
         /\ call' = [NoCall EXCEPT !.strategy = s]
    /\ last' = [op |-> "set_strategy", req |-> NoRequest, ok |-> TRUE]
    /\ UNCHANGED <<adders, cars, next_id, pending, lock_owner, running, stop_event,
                   simulation_thread, ticker, tick_pos, caller, join_target>>

\* ElevatorController.set_dispatch_strategy, called with a built-in strategy.
SetDispatchStrategy == SetDispatchStrategyAmong(Strategies(NumCars))

\* ElevatorController.request_elevator, whatever the arguments, called
\* until MaxSubmitted requests were constructed.
RequestElevatorCall ==
    /\ next_id <= MaxSubmitted
    /\ \E a \in CallSpace : request_elevator(a[1], a[2], a[3])

\* ElevatorController.step, lines 174-175: every car steps, in fleet order.
RECURSIVE step_cars(_, _)
step_cars(fleet, i) ==
    IF i > Len(fleet) THEN {fleet}
    ELSE UNION { step_cars([fleet EXCEPT ![i] = c2], i + 1) :
                   c2 \in step(fleet[i]) }

\* ElevatorController.step, called by the one thread.
ControllerStep ==
    /\ lock_owner = 0
    /\ LET d == process_pending_requests(strategy, cars, pending)
       IN /\ cars' \in step_cars(d.cars, 1)
          /\ pending' = d.pending
          /\ strategy' = d.strategy
          /\ last' = [op |-> "step", req |-> NoRequest, ok |-> TRUE,
                      tried |-> d.tried]
    /\ UNCHANGED <<adders, call, next_id, lock_owner, running, stop_event,
                   simulation_thread, ticker, tick_pos, caller, join_target>>

DispatchNext == SetDispatchStrategy \/ RequestElevatorCall \/ ControllerStep

DispatchSpec == Init /\ [][DispatchNext]_vars

(***************************************************************************)
(* Specification MixedSpec: the controller driven by one thread, over a   *)
(* fleet whose second car serves one floor less and has room for one      *)
(* passenger only.                                                         *)
(***************************************************************************)
MixedInit ==
    /\ cars = [i \in 1..NumCars |->
                 IF i = 1
                   THEN Elevator(i, DefaultMinFloor, MaxFloor, DefaultCapacity,
                                 DefaultStartFloor)
                   ELSE Elevator(i, DefaultMinFloor, MaxFloor - 1, 1,
                                 DefaultStartFloor)]
    /\ next_id = 1
    /\ last = [op |-> "init", req |-> NoRequest, ok |-> TRUE]
    /\ ControllerInit

MixedSpec == MixedInit /\ [][DispatchNext]_vars

(***************************************************************************)
(* Specification FaultySpec: the controller driven by one thread that may *)
(* install a strategy whose select_elevator raises.                        *)
(***************************************************************************)
SetFaultyStrategy ==
    SetDispatchStrategyAmong({LookDispatchStrategy, RaisingStrategy})

FaultyNext == SetFaultyStrategy \/ RequestElevatorCall \/ ControllerStep

FaultySpec == Init /\ [][FaultyNext]_vars

(***************************************************************************)
(* Claims about one car (CarSpec, CarFairSpec).                            *)
(***************************************************************************)
car == cars[1]

NoRequestLeft(c) == \A f \in DOMAIN c.active_requests : c.active_requests[f] = {}

AtRest(c) ==
    /\ c.direction = IDLE
    /\ c.up_stops = {}
    /\ c.down_stops = {}

\* C3: once requests stop arriving, finitely many step() calls complete every
\* accepted request and leave the car IDLE with both stop sets empty, and it
\* stays so.
C3_EventuallyServedAndIdle == <>[](AtRest(car) /\ NoRequestLeft(car))

InRange(c, f) == c.min_floor <= f /\ f <= c.max_floor

\* The car apart from the notifications of its last operation.
Visible(c) == [c EXCEPT !.events = <<>>]

\* C7: add_request returns true iff pickup and destination lie in
\* [min_floor, max_floor] and passengers <= capacity, whatever the load,
\* direction and pending requests; a rejected request changes nothing of the
\* car and emits no event.
C7_AddRequestAcceptsIffFits ==
    [][last'.op = "add" =>
         LET r == last'.req
         IN /\ last'.ok <=> /\ InRange(car, r.pickup_floor)
                            /\ InRange(car, r.destination_floor)
                            /\ r.passengers <= car.capacity
            /\ ~last'.ok => /\ Visible(car') = Visible(car)
                            /\ car'.events = <<>>]_vars

\* A request is rejected by a car that is moving with passengers on board.
C7_Witness ==
    /\ last.op = "add" /\ ~last.ok
    /\ car.current_load > 0 /\ car.direction /= IDLE
    /\ InRange(car, last.req.pickup_floor)
    /\ InRange(car, last.req.destination_floor)

\* C8: an accepted request is recorded at its pickup and destination floors,
\* both floors join up_stops for an UP request and down_stops otherwise, floor,
\* load and door are unchanged, and the direction changes only if the car was
\* IDLE: toward the pickup, or the request's direction at the pickup floor.
C8_AddRequestEffect ==
    [][(last'.op = "add" /\ last'.ok) =>
         LET r == last'.req
             stops == {r.pickup_floor, r.destination_floor}
         IN /\ car'.active_requests =
                  [f \in DOMAIN car.active_requests |->
                     IF f \in stops THEN car.active_requests[f] \cup {r}
                     ELSE car.active_requests[f]]
            /\ IF r.destination_floor > r.pickup_floor
                 THEN /\ car'.up_stops = car.up_stops \cup stops
                      /\ car'.down_stops = car.down_stops
                 ELSE /\ car'.down_stops = car.down_stops \cup stops
                      /\ car'.up_stops = car.up_stops
            /\ car'.current_floor = car.current_floor
            /\ car'.current_load = car.current_load
            /\ car'.door_state = car.door_state
            /\ car'.direction =
                  IF car.direction /= IDLE THEN car.direction
                  ELSE IF r.pickup_floor > car.current_floor THEN UP
                  ELSE IF r.pickup_floor < car.current_floor THEN DOWN
                  ELSE IF r.destination_floor > r.pickup_floor THEN UP
                  ELSE DOWN]_vars

\* An IDLE car has accepted a DOWN request picked up at its own floor.
C8_Witness ==
    /\ last.op = "add" /\ last.ok
    /\ last.req.pickup_floor = car.current_floor
    /\ last.req.destination_floor < last.req.pickup_floor
    /\ car.direction = DOWN
    /\ Cardinality(car.down_stops) = 2

\* C9: a car that, since it was IDLE, accepted only UP requests picked up at or
\* above its floor (or only DOWN requests picked up at or below it) never
\* moves against that direction before it is IDLE again, completes no request
\* whose pickup floor it has not stopped at, and is IDLE only when every
\* request is completed.
C9_SweepKeepsDirection ==
    [][car.h_sweep \in {UP, DOWN} =>
         /\ car.h_sweep = UP =>
               car'.current_floor >= car.current_floor /\ car'.direction /= DOWN
         /\ car.h_sweep = DOWN =>
               car'.current_floor <= car.current_floor /\ car'.direction /= UP
         /\ car'.h_early = car.h_early
         /\ car'.direction = IDLE => NoRequestLeft(car')]_vars

\* Mid-sweep: the car has moved up, delivered one request and has another.
C9_Witness ==
    /\ car.h_sweep = UP
    /\ car.direction = UP
    /\ car.h_completed /= {}
    /\ car.h_completed \subseteq car.h_seen
    /\ ~NoRequestLeft(car)

\* C10: in every reachable state 0 <= current_load <= capacity.
C10_LoadWithinCapacity ==
    \A i \in DOMAIN cars :
        0 <= cars[i].current_load /\ cars[i].current_load <= cars[i].capacity

\* A full car has stopped at the pickup floor of a request it could not board.
C10_Witness ==
    /\ car.current_load = car.capacity
    /\ car.h_seen \ (car.h_boarded \cup car.h_completed) /= {}

(***************************************************************************)
(* Claims about the controller (Spec, LifecycleSpec, FairLifecycleSpec).  *)
(***************************************************************************)
holders(id) ==
    { i \in DOMAIN cars :
        \E f \in DOMAIN cars[i].active_requests :
           \E r \in cars[i].active_requests[f] : r.id = id }

queued(id) == { k \in DOMAIN pending : pending[k].id = id }

completers(id) == { i \in DOMAIN cars : id \in cars[i].h_completed }

\* C1: after any interleaving of request_elevator calls and controller
\* ticks, every request made is accounted for exactly once: held by exactly
\* one car, or exactly once in the pending queue, or completed; never two of
\* these, never none.
C1_RequestsAccountedOnce ==
    \A id \in 1..(next_id - 1) :
       /\ Cardinality(holders(id)) + Cardinality(queued(id))
            + Cardinality(completers(id)) = 1
       /\ \A i \in holders(id) :
             \A f \in DOMAIN cars[i].active_requests :
                Cardinality({ r \in cars[i].active_requests[f] : r.id = id }) <= 1

C1_Witness ==
    /\ next_id = 3
    /\ Cardinality(queued(1)) = 1
    /\ completers(2) /= {}
    /\ last.op = "car_step"

\* C2: a tick holds from the start of the drain to the step of the last car
\* with no request_elevator dispatch in between: while a tick is under way no
\* request is made, and the queue and the cars change by the tick alone.
C2_TickAtomic ==
    [][(\E t \in Tickers : ticker[t] = "cars") =>
         /\ last'.op \notin {"request", "drain"}
         /\ next_id' = next_id
         /\ pending' = pending
         /\ \A i \in DOMAIN cars : i /= tick_pos => cars'[i] = cars[i]]_vars

C2_Witness ==
    /\ \E t \in Tickers : ticker[t] = "cars" /\ lock_owner = t
    /\ tick_pos = NumCars
    /\ last.op = "car_step"
    /\ next_id = 2
    /\ holders(1) /= {}

\* C4: whatever start() and stop() calls are made, from one thread or
\* several, at most one ticker thread is inside the simulation loop.
C4_AtMostOneTicker ==
    Cardinality({ t \in Tickers : ticker[t] \in {"acquire", "cars", "sleep"} }) <= 1

lifecycle_vars == <<cars, next_id, controller_vars>>

\* C5: start() on a running controller and stop() on a controller that is
\* not running change nothing: no ticker is made, nothing is signalled, and
\* the caller waits for no thread.
C5_StartStopIdempotent ==
    [][/\ (last'.op = "start" /\ running) => UNCHANGED lifecycle_vars
       /\ (last'.op = "stop" /\ ~running) => UNCHANGED lifecycle_vars]_vars

C5_Witness ==
    /\ last.op = "start"
    /\ ~last.ok
    /\ running
    /\ \E t \in Tickers : Alive(t)
    /\ \E c \in Callers : caller[c] = "join"

\* C6: stop() on a running controller returns, leaves running false, and
\* leaves the controller restartable: a later start() sets running and makes
\* a ticker that steps again; with no later start() the signalled ticker
\* ends.
C6_StopReturnsAndRestartable ==
    /\ \A c \in Callers : (caller[c] /= "idle") ~> (caller[c] = "idle")
    /\ [][(last'.op = "stop" /\ running) => (~running' /\ stop_event')]_vars
    /\ [][(last'.op = "start" /\ ~running) =>
            /\ running'
            /\ ~stop_event'
            /\ ticker'[simulation_thread'] = "check"
            /\ ticker[simulation_thread'] = "unborn"]_vars
    /\ \A t \in Tickers :
          /\ (ticker[t] = "check" /\ ~stop_event) ~> (ticker[t] = "cars" \/ stop_event)
          /\ (Alive(t) /\ stop_event) ~> (ticker[t] = "dead" \/ ~stop_event)

C6_Witness ==
    /\ last.op = "start"
    /\ last.ok
    /\ \E t \in Tickers : ticker[t] = "dead"
    /\ \E c \in Callers : caller[c] = "idle"

(***************************************************************************)
(* Claims about boarding (CarSpec).                                        *)
(***************************************************************************)
\* The request id waits at its pickup floor in the car's floor map.
pending_at_pickup(c, id) ==
    \E f \in DOMAIN c.active_requests :
       \E r \in c.active_requests[f] : r.id = id /\ r.pickup_floor = f

\* C11: a request whose passengers did not fit when the car processed its
\* pickup floor is not dropped: it stays pending at that floor until a later
\* visit on which its passengers board.
C11_RefusedRequestWaitsToBoard ==
    \A id \in car.h_seen \ car.h_boarded : pending_at_pickup(car, id)

(***************************************************************************)
(* Claims about the dispatch strategies (StrategySpec).                    *)
(***************************************************************************)
\* The cars of the fleet that can accept the request of the last call.
call_compatible == { i \in DOMAIN cars : can_accept_request(cars[i], call.req) }

call_distance(i) == Abs(cars[i].current_floor - call.req.pickup_floor)

call_idle(i) ==
    cars[i].direction = IDLE /\ cars[i].up_stops = {} /\ cars[i].down_stops = {}

\* C12: every built-in strategy returns none iff no car of the fleet can
\* accept the request (an empty fleet included), and otherwise a car of the
\* fleet that can accept it.
C12_NoneIffNoCompatibleCar ==
    call.made =>
       /\ call.elevator = 0 <=> call_compatible = {}
       /\ call.elevator /= 0 => call.elevator \in call_compatible

C12_Witness ==
    /\ call.made
    /\ call.strategy.kind = "FCFS"
    /\ call.elevator = 2
    /\ 1 \notin call_compatible

\* The cost the LOOK strategy is said to give car i for the request of the
\* last call, times 20: the distance for an idle car; for a moving car the
\* distance times 0.5, 1.5 or 2.0, plus 0.3 for each pending stop, the sum
\* times 1.5 when the load is at least 0.8 of the capacity.
call_toward(i) ==
    \/ cars[i].direction = UP /\ call.req.pickup_floor >= cars[i].current_floor
    \/ cars[i].direction = DOWN /\ call.req.pickup_floor <= cars[i].current_floor

call_cost(i) ==
    LET stops == Cardinality(cars[i].up_stops) + Cardinality(cars[i].down_stops)
        factor10 ==
            IF cars[i].direction = IDLE THEN 20
            ELSE IF ~call_toward(i) THEN 40
            ELSE IF cars[i].direction = request_direction(call.req) THEN 10
            ELSE 30
        sum == factor10 * call_distance(i) + 6 * stops
    IN IF call_idle(i) THEN 20 * call_distance(i)
       ELSE IF 10 * cars[i].current_load >= 8 * cars[i].capacity
         THEN (3 * sum) \div 2
       ELSE sum

\* C13: LOOK dispatch returns the compatible car of minimum cost, and among
\* cars of equal minimum cost the first in fleet order.
C13_LookReturnsFirstOfMinimumCost ==
    (call.made /\ call.strategy.kind = "LOOK" /\ call_compatible /= {}) =>
       /\ call.elevator \in call_compatible
       /\ \A j \in call_compatible :
             \/ call_cost(call.elevator) < call_cost(j)
             \/ call_cost(call.elevator) = call_cost(j) /\ call.elevator <= j

\* C14: LOOK dispatch prefers a car that moves toward the pickup floor in the
\* direction of the request to an idle car at the same distance from the
\* pickup floor: the idle car is not the one returned.
C14_LookPrefersMovingCar ==
    (call.made /\ call.strategy.kind = "LOOK") =>
       \A i, j \in call_compatible :
          (/\ ~call_idle(i)
           /\ call_toward(i)
           /\ cars[i].direction = request_direction(call.req)
           /\ call_idle(j)
           /\ call_distance(i) = call_distance(j)) => call.elevator /= j

\* C15: Nearest dispatch returns the idle compatible car nearest the pickup
\* floor when a compatible car is idle, even if a busy one is nearer, and
\* the nearest compatible car when none is idle.
C15_NearestPrefersIdle ==
    (call.made /\ call.strategy.kind = "NEAREST" /\ call_compatible /= {}) =>
       LET idle == { i \in call_compatible : call_idle(i) }
           pool == IF idle /= {} THEN idle ELSE call_compatible
       IN /\ call.elevator \in pool
          /\ \A j \in pool : call_distance(call.elevator) <= call_distance(j)

C15_Witness ==
    /\ call.made
    /\ call.strategy.kind = "NEAREST"
    /\ call.elevator /= 0
    /\ call_idle(call.elevator)
    /\ \E j \in call_compatible :
          ~call_idle(j) /\ call_distance(j) < call_distance(call.elevator)

\* C16: FCFS dispatch returns the first compatible car at or after its
\* rotating index in cyclic fleet order and leaves the index one position
\* past that car (so a fleet of n compatible cars is served 0, 1, ..., n-1,
\* 0, 1, ...).
C16_FcfsRotates ==
    (call.made /\ call.strategy.kind = "FCFS" /\ call.elevator /= 0) =>
       LET n == Len(cars)
           start == call.strategy.next_index
           offset == ((call.elevator - 1) - start) % n
       IN /\ call.elevator \in call_compatible
          /\ \A k \in 0..(offset - 1) : ((start + k) % n) + 1 \notin call_compatible
          /\ strategy.next_index = call.elevator % n

C16_Witness ==
    /\ call.made
    /\ call.strategy.kind = "FCFS"
    /\ Len(cars) = 2
    /\ call.strategy.next_index = 1
    /\ call.elevator = 1
    /\ 2 \notin call_compatible

\* C17: every FCFS call on a fleet that is not empty advances the rotating
\* index by at least one position, whatever the request and whichever cars
\* can accept it.
C17_FcfsAlwaysAdvances ==
    (call.made /\ call.strategy.kind = "FCFS" /\ Len(cars) > 0) =>
       call.advances >= 1

\* The compatible cars whose zone holds the pickup floor of the last call.
call_zone_cars ==
    { i \in call_compatible :
        /\ cars[i].id \in DOMAIN call.strategy.zone_assignments
        /\ call.strategy.zone_assignments[cars[i].id][1] <= call.req.pickup_floor
        /\ call.req.pickup_floor <= call.strategy.zone_assignments[cars[i].id][2] }

\* C18: Zoned dispatch returns the nearest of the compatible cars whose zone
\* holds the pickup floor when there is one, and otherwise what Nearest
\* dispatch returns.
C18_ZonedPrefersZoneCar ==
    (call.made /\ call.strategy.kind = "ZONED" /\ call_compatible /= {}) =>
       IF call_zone_cars /= {}
         THEN /\ call.elevator \in call_zone_cars
              /\ \A j \in call_zone_cars :
                    call_distance(call.elevator) <= call_distance(j)
         ELSE call.elevator = nearest_select_elevator(call.req, cars)

C18_Witness ==
    /\ call.made
    /\ call.strategy.kind = "ZONED"
    /\ call.elevator \in call_zone_cars
    /\ ~call_idle(call.elevator)
    /\ \E j \in call_compatible \ call_zone_cars :
          call_idle(j) /\ call_distance(j) < call_distance(call.elevator)

\* The step is a call of request_elevator: last' records its arguments.
request_elevator_called == last'.op \in {"request", "request_error"}

C20_InvalidRequestRaises ==
    [][ LET r == last'.req
        IN /\ (/\ request_elevator_called
               /\ (r.pickup_floor = r.destination_floor \/ r.passengers < 1))
              => /\ last'.op = "request_error"
                 /\ cars' = cars
                 /\ pending' = pending
           /\ last'.op = "request"
              => /\ request_direction(r) \in {UP, DOWN}
                 /\ (request_direction(r) = UP)
                      <=> (r.destination_floor > r.pickup_floor)
      ]_vars

\* A call with equal floors raised while a car was under way to the stops
\* of a request.
C20_Witness ==
    /\ last.op = "request_error"
    /\ last.req.pickup_floor = last.req.destination_floor
    /\ \E i \in DOMAIN cars :
         has_pending_stops(cars[i]) /\ cars[i].current_floor > DefaultStartFloor

(***************************************************************************)
(* Claims about the notifications and the sweep of one car (CarSpec).      *)
(***************************************************************************)
\* C22: every change of a car's direction, by add_request or by step, is
\* followed by a direction-changed notification made after the change: the
\* operation that changed the direction emits one that carries the new
\* direction.
C22_DirectionChangeNotified ==
    [][car'.direction /= car.direction =>
         \E k \in DOMAIN car'.events :
            /\ car'.events[k].type = "direction_changed"
            /\ car'.events[k].state.direction = car'.direction]_vars

\* C25: a step of a car that is IDLE changes nothing of the car and emits no
\* event; an IDLE car leaves IDLE only through an accepted add_request.
C25_IdleStepIsNoOp ==
    [][car.direction = IDLE =>
         /\ last'.op = "step" => /\ Visible(car') = Visible(car)
                                 /\ car'.events = <<>>
         /\ car'.direction /= IDLE => last'.op = "add" /\ last'.ok]_vars

\* A car that has delivered a request is IDLE and its last step emitted no
\* event: the step was taken while it was IDLE.
C25_Witness ==
    /\ last.op = "step"
    /\ car.direction = IDLE
    /\ car.events = <<>>
    /\ car.h_completed /= {}

\* The stops of direction d, and those strictly ahead of the car in d.
stops_of(c, d) == IF d = UP THEN c.up_stops ELSE c.down_stops

opposite(d) == IF d = UP THEN DOWN ELSE UP

stops_ahead(c, d) ==
    { f \in stops_of(c, d) : IF d = UP THEN f > c.current_floor
                                        ELSE f < c.current_floor }

\* C26: at the end of a step of a car moving in direction D the car keeps D
\* if a stop of D's set lies strictly ahead; otherwise it reverses if the
\* other set is not empty; otherwise it reverses if D's own set is not
\* empty; otherwise it becomes IDLE.
C26_DirectionAfterStep ==
    [][(last'.op = "step" /\ car.direction /= IDLE) =>
         LET D == car.direction
         IN car'.direction =
              IF stops_ahead(car', D) /= {} THEN D
              ELSE IF stops_of(car', opposite(D)) /= {} THEN opposite(D)
              ELSE IF stops_of(car', D) /= {} THEN opposite(D)
              ELSE IDLE]_vars

\* A car that moved DOWN reversed only because stops of its own set remain
\* behind it.
C26_Witness ==
    /\ last.op = "step"
    /\ car.direction = UP
    /\ car.up_stops = {}
    /\ car.down_stops /= {}
    /\ \A f \in car.down_stops : f >= car.current_floor
    /\ \E k \in DOMAIN car.events : car.events[k].state.direction = DOWN

\* C27: a car never reverses twice in succession without removing a floor
\* from a stop set in between.
C27_NoOscillation == car.h_turns < 2

\* C28: every request in the floor map has its pickup or its destination
\* floor in the stop set of its direction.
C28_MappedRequestHasPendingStop ==
    \A f \in DOMAIN car.active_requests :
       \A r \in car.active_requests[f] :
          {r.pickup_floor, r.destination_floor}
             \cap stops_of(car, request_direction(r)) /= {}

\* A request whose pickup floor was served is in the map with only its
\* destination left in the stop set.
C28_Witness ==
    \E f \in DOMAIN car.active_requests :
       \E r \in car.active_requests[f] :
          /\ r.id \in car.h_boarded
          /\ r.pickup_floor \notin stops_of(car, request_direction(r))
          /\ r.destination_floor \in stops_of(car, request_direction(r))

\* The step moved the car: it emitted a floor_reached notification.
moved == \E k \in DOMAIN car'.events : car'.events[k].type = "floor_reached"

\* C29: a step in which stops remain after the arrival processing at the
\* floor the car starts on takes the car exactly one floor in its direction,
\* so the clamp never holds it back; the floor stays in
\* [min_floor, max_floor].
C29_MoveIsOneFloor ==
    [][/\ (last'.op = "step" /\ car.direction /= IDLE)
          => /\ moved <=> \E c1 \in arrive(car) : has_pending_stops(c1)
             /\ moved => car'.current_floor =
                            IF car.direction = UP THEN car.current_floor + 1
                            ELSE car.current_floor - 1
             /\ ~moved => car'.current_floor = car.current_floor
       /\ InRange(car', car'.current_floor)]_vars

\* A car moved up to its top floor.
C29_Witness ==
    /\ last.op = "step"
    /\ car.current_floor = car.max_floor
    /\ \E k \in DOMAIN car.events :
         /\ car.events[k].type = "floor_reached"
         /\ car.events[k].state.direction = UP

\* C30: an idle car that accepted a request picked up at its own floor for
\* the adjacent floor processes both floors in its next step: the request
\* boards and is delivered, and the step leaves the car IDLE at the
\* destination with the load it had before.
C30_AdjacentRequestServedInOneStep ==
    [][LET r == last.req
       IN (/\ last.op = "add" /\ last.ok
           /\ car.h_was_idle
           /\ r.pickup_floor = car.current_floor
           /\ Abs(r.destination_floor - r.pickup_floor) = 1
           /\ last'.op = "step")
          => /\ car'.direction = IDLE
             /\ car'.current_floor = r.destination_floor
             /\ r.id \in car'.h_boarded
             /\ r.id \in car'.h_completed
             /\ car'.current_load = car.current_load]_vars

(***************************************************************************)
(* Claims about the observers of one car (ObserverSpec).                   *)
(***************************************************************************)
\* The car with observers that all return.
calm(c) == [c EXCEPT !.observers = [i \in DOMAIN @ |-> "returns"]]

\* The car apart from its observers and what was delivered to them.
unobserved(c) == [c EXCEPT !.observers = <<>>, !.delivered = <<>>]

\* The types of the notifications the operation made, in order.
notified(c) == [k \in DOMAIN c.events |-> c.events[k].type]

\* C21: when observers raise from their callbacks, add_request and step
\* return the value and leave the car in the state they would with observers
\* that return, no exception leaves the operation, and every registered
\* observer is called with every notification.
C21_ObserverErrorsIsolated ==
    [][/\ last'.op = "add" =>
            LET quiet == add_request(calm(car), last'.req)
            IN /\ last'.ok = quiet.ok
               /\ unobserved(car') = unobserved(quiet.car)
       /\ last'.op = "step" =>
            \E c2 \in step(calm(car)) : unobserved(car') = unobserved(c2)
       /\ ~car'.raised
       /\ \A i \in DOMAIN car'.observers : car'.delivered[i] = notified(car')
      ]_vars

\* A step delivered a request with an observer that raises registered ahead
\* of one that returns: the second was told of the completion.
C21_Witness ==
    /\ last.op = "step"
    /\ car.observers = <<"raises", "returns">>
    /\ \E k \in DOMAIN car.delivered[2] :
         car.delivered[2][k] = "request_completed"
    /\ car.h_completed /= {}

(***************************************************************************)
(* Claims about the locks (LockSpec).                                      *)
(***************************************************************************)
\* C23: the controller lock is held only by a ticker in the middle of a
\* tick, never by a ticker that sleeps nor by a caller of stop() that waits
\* for the ticker; so the lock is free again and again for the calls that
\* need it, and every call of stop() returns.
C23_NoLockHeldWhileWaiting ==
    /\ [](lock_owner /= 0 => ticker[lock_owner] = "cars")
    /\ []<>(lock_owner = 0)
    /\ \A c \in Callers : [](caller[c] = "join" => <>(caller[c] = "idle"))

\* A ticker sleeps and a caller of stop() waits for it while a request is
\* dispatched.
C23_Witness ==
    /\ last.op = "request"
    /\ \E t \in Tickers : ticker[t] = "sleep"
    /\ \E c \in Callers : caller[c] = "join"

(***************************************************************************)
(* Claims about threads that share one car (AddersSpec).                   *)
(***************************************************************************)
\* The threads inside the locked part of add_request.
inside == { t \in Adders : adders[t].pc \notin {"idle", "acquire", "returned"} }

\* C24: add_request calls made on one car by several threads at once are
\* serialised by the car's lock and no update is lost: when all of them
\* have returned, every accepted request is in the floor map at its pickup
\* and at its destination floor and both floors are in the stop set of its
\* direction.
C24_ConcurrentAddsKeepEveryRequest ==
    /\ Cardinality(inside) <= 1
    /\ \A t \in inside : car.lock = t
    /\ (\A t \in Adders : adders[t].pc = "returned") =>
          \A t \in Adders :
             LET r == adders[t].req
             IN IF adders[t].result
                  THEN /\ r \in car.active_requests[r.pickup_floor]
                       /\ r \in car.active_requests[r.destination_floor]
                       /\ {r.pickup_floor, r.destination_floor}
                             \subseteq stops_of(car, request_direction(r))
                  ELSE ~can_accept_request(car, r)

\* Two threads have added requests with the same pickup floor and both have
\* returned.
C24_Witness ==
    /\ \A t \in Adders : adders[t].pc = "returned" /\ adders[t].result
    /\ \E f \in DOMAIN car.active_requests :
         /\ Cardinality(car.active_requests[f]) = NumAdders
         /\ \A r \in car.active_requests[f] : r.pickup_floor = f
(***************************************************************************)
(* Claims about what one car does to each request (CarSpec).               *)
(***************************************************************************)
\* The requests of the car's floor map.
mapped(c) == UNION { c.active_requests[f] : f \in DOMAIN c.active_requests }

\* C33: a request whose destination floor was processed is gone from the
\* floor map at every floor, it was completed by one request-completed event
\* only, and it is never boarded or delivered again.
C33_CompletedOnceAndGone ==
    /\ \A r \in mapped(car) : r.id \notin car.h_completed
    /\ car.h_again = {}
    /\ \A j, k \in DOMAIN car.events :
          (/\ car.events[j].type = "request_completed"
           /\ car.events[k].type = "request_completed"
           /\ car.events[j].req = car.events[k].req) => j = k

\* A request picked up at one floor was boarded there and completed at
\* another floor by the last step, while the car goes on to other stops.
C33_Witness ==
    /\ last.op = "step"
    /\ has_pending_stops(car)
    /\ \E k \in DOMAIN car.events :
         /\ car.events[k].type = "request_completed"
         /\ car.events[k].req \in car.h_boarded

\* C34: a request is completed only after the car processed its pickup floor
\* and boarded its passengers there.
C34_CompletedOnlyAfterBoarding == car.h_completed \subseteq car.h_boarded

\* The passengers of the requests in S together.
RECURSIVE passengers_of(_)
passengers_of(S) ==
    IF S = {} THEN 0
    ELSE LET r == CHOOSE x \in S : TRUE
         IN r.passengers + passengers_of(S \ {r})

\* The requests that boarded and are not completed yet; each is still in the
\* floor map at its destination.
on_board(c) == { r \in mapped(c) : r.id \in c.h_boarded }

\* C35: the load of a car is the sum of the passenger counts of the requests
\* that boarded and are not completed; no request's passengers are added
\* twice, and none are subtracted that were not added.
C35_LoadIsSumOfBoarded ==
    /\ car.current_load = passengers_of(on_board(car))
    /\ car.h_twice = {}
    /\ car.h_completed \subseteq car.h_boarded

\* C36: a car that is IDLE with both stop sets empty carries nobody.
C36_IdleCarIsEmpty == AtRest(car) => car.current_load = 0

\* C37: a car is IDLE exactly when both of its stop sets are empty.
C37_IdleIffNoStops == (car.direction = IDLE) <=> ~has_pending_stops(car)

\* A step left the car moving with a stop pending, after another left it
\* IDLE having completed a request.
C37_Witness ==
    /\ last.op = "step"
    /\ car.direction /= IDLE
    /\ has_pending_stops(car)
    /\ car.h_completed /= {}
    /\ car.h_was_idle

\* C38: every floor in up_stops or down_stops is the pickup or destination
\* floor of a request that is still in the car's floor map.
C38_StopsBelongToRequests ==
    \A f \in car.up_stops \cup car.down_stops :
       \E r \in mapped(car) : f \in {r.pickup_floor, r.destination_floor}

(***************************************************************************)
(* Claims about a car read while it is driven (ReaderSpec).                *)
(***************************************************************************)
\* The threads inside add_request or step, past the acquisition of the lock.
in_operation ==
    { t \in Adders :
        adders[t].pc \notin {"idle", "acquire", "step_acquire", "returned"} }

\* In the events of the car's last operation, every door_opened is followed
\* by a door_closed before the next floor_reached.
doors_bracketed(c) ==
    \A j \in DOMAIN c.events :
       c.events[j].type = "door_opened" =>
          \E k \in DOMAIN c.events :
             /\ k > j
             /\ c.events[k].type = "door_closed"
             /\ \A i \in j..k : c.events[i].type /= "floor_reached"

\* C32: a snapshot another thread gets from get_state is taken while no
\* add_request or step is under way and shows the door CLOSED; the car does
\* not change floor with its door open, and in the events of every step
\* each door_opened is followed by door_closed before the next
\* floor_reached.
C32_SnapshotsWholeAndDoorClosedOnTheMove ==
    /\ [][((last'.op = "get_state") =>
              (in_operation = {} /\ last'.state.door_state = CLOSED))
          /\ ((car'.current_floor /= car.current_floor) =>
                (car.door_state = CLOSED /\ car'.door_state = CLOSED))]_vars
    /\ [](in_operation = {} => (car.door_state = CLOSED /\ doors_bracketed(car)))

\* A thread got a snapshot of a loaded car whose last step opened the door,
\* closed it and moved on.
C32_Witness ==
    /\ last.op = "get_state"
    /\ last.state = get_state(car)
    /\ last.state.current_load > 0
    /\ adders[1].pc = "returned"
    /\ \E j, k \in DOMAIN car.events :
         /\ j < k
         /\ car.events[j].type = "door_closed"
         /\ car.events[k].type = "floor_reached"

(***************************************************************************)
(* Claims about the controller's tick (DispatchSpec, FaultySpec).          *)
(***************************************************************************)
\* The cars of the fleet that hold r in their floor maps.
holding(fleet, r) == { i \in DOMAIN fleet : r \in mapped(fleet[i]) }

\* The requests of the queue q that no car of the fleet holds, in order.
not_placed(q, fleet) == SelectSeq(q, LAMBDA r : holding(fleet, r) = {})

\* The identities of the requests of q, in order.
ids(q) == [i \in DOMAIN q |-> q[i].id]

\* C31: a tick takes every request that was pending at its start from the
\* queue once, in FIFO order, and tries to dispatch it; the requests that
\* fail are the pending queue afterwards, in their original order, and the
\* others are held by one car each; only then every car is stepped once
\* (no car still reports the acceptance, and no car moved more than one
\* floor).
C31_TickDrainsThenStepsEveryCar ==
    [][last'.op = "step" =>
         (/\ last'.tried = ids(pending)
          /\ pending' = not_placed(pending, cars')
          /\ \A i \in DOMAIN pending :
                (\E j \in DOMAIN pending' : pending'[j] = pending[i]) \/
                   Cardinality(holding(cars', pending[i])) = 1
          /\ \A i \in DOMAIN cars :
                /\ \A k \in DOMAIN cars'[i].events :
                      cars'[i].events[k].type /= "request_accepted"
                /\ Abs(cars'[i].current_floor - cars[i].current_floor) <= 1)]_vars

\* C39: when the strategy raises while a tick drains the pending queue, no
\* request is lost: every request that was pending before the tick is held
\* by a car or is in the pending queue exactly once afterwards.
C39_RaisingStrategyLosesNoRequest ==
    [][last'.op = "step" =>
         \A i \in DOMAIN pending :
            \/ holding(cars', pending[i]) /= {}
            \/ Cardinality({ j \in DOMAIN pending' : pending'[j] = pending[i] }) = 1
      ]_vars

\* C40: with the built-in strategies, whichever of them is installed, a
\* request in the pending queue is never accepted by a car afterwards: it
\* stays in the queue, and the queue never gets shorter.
C40_PendingRequestsStayPending ==
    [][/\ Len(pending') >= Len(pending)
       /\ \A i \in DOMAIN pending :
             /\ holding(cars', pending[i]) = {}
             /\ \E j \in DOMAIN pending' : pending'[j] = pending[i]]_vars

\* A tick has retried a pending request under a strategy installed after the
\* request was queued, while the second car, which serves fewer floors, is
\* busy with another request.
C40_Witness ==
    /\ last.op = "step"
    /\ last.tried /= <<>>
    /\ pending /= <<>>
    /\ call.strategy.kind \in {"NEAREST", "FCFS", "ZONED"}
    /\ mapped(cars[NumCars]) /= {}

====
